---------------------------- MODULE Spec2Model ----------------------------
(***************************************************************************)
(* A model of the marketing-insights backend (mcp-backend): the upload     *)
(* consolidator, the per-user connector registry, the analysis functions   *)
(* (metrics, recommendations, budget reallocation) and the CSV loader.     *)
(*                                                                         *)
(* The module holds several specifications over one set of variables; each *)
(* specification moves only the variables of its own component and leaves  *)
(* the others at their initial value.                                      *)
(*                                                                         *)
(* Numbers.  pandas works on float64; the model works on integers.  A cell *)
(* of an uploaded frame is a number of hundredths, a derived ratio is a    *)
(* number of ten-thousandths (the precision the code rounds grouped values *)
(* to), and rounding is half-to-even as numpy's.                           *)
(***************************************************************************)
EXTENDS Integers, Sequences, FiniteSets, TLC

VARIABLES
    \* ---- consolidator / upload requests (clean_consolidator.py, clean_insights.py)
    heap,        \* object id -> the .data frame of that CleanDataConsolidator
    admitted,    \* object id -> the batches (standardized frames) admitted to it, in call order
    reqs,        \* upload request -> its position, its consolidator, its result
    \* ---- connectors per user (credential_manager.py, data_integrator.py)
    store,       \* credential storage: user -> data source -> credentials
    connectors,  \* the shared DataIntegrator's registry: data source -> connector
    fetches,     \* ad request -> its position and the connectors its fetch used
    \* ---- analysis (analytics/*.py, routes/ad_insights.py, insights_generator.py)
    dataset,     \* the caller's dataset (a DataFrame): its rows
    dsCols,      \* the caller's dataset: its columns
    called,      \* the entry point that was called last
    out,         \* what that entry point returned (or that it raised)
    \* ---- loader (data_loader.py, routes/ad_insights.py)
    file,        \* the uploaded file: what each encoding and strategy would give
    ld,          \* the loader's position, the attempts made, its result
    \* ---- MCP client (backend/services/mcp_client_fixed.py)
    client,      \* the shared MCPClientFixed: _initialized, _session_id, _request_id
    callers,     \* call_tool invocation -> its position and what it returned
    wire         \* the requests posted to /llm/mcp and the answers to initialize, in order

consVars  == <<heap, admitted, reqs>>
connVars  == <<store, connectors, fetches>>
anaVars   == <<dataset, dsCols, called, out>>
loadVars  == <<file, ld>>
mcpVars   == <<client, callers, wire>>
vars      == <<heap, admitted, reqs, store, connectors, fetches,
               dataset, dsCols, called, out, file, ld, client, callers, wire>>

-----------------------------------------------------------------------------
(* Generic helpers *)

Abs(x) == IF x < 0 THEN -x ELSE x

-----------------------------------------------------------------------------
(* Frames and cells.  A frame is a set of column labels and a sequence of  *)
(* rows, each row a function from the labels to cells.  A cell is a number *)
(* (n hundredths), a text (a sequence of characters), NaN or an infinite   *)
(* float.                                                                  *)


Num(n)  == [t |-> "num", n |-> n, s |-> <<>>]
Txt(s)  == [t |-> "str", n |-> 0, s |-> s]
NaNCell == [t |-> "nan", n |-> 0, s |-> <<>>]
InfCell == [t |-> "inf", n |-> 0, s |-> <<>>]

EmptyFrame == [cols |-> {}, rows |-> <<>>]

\* DataFrame.empty: an axis of length 0
IsEmpty(f) == f.cols = {} \/ f.rows = <<>>

\* The character of the digit d is Digits[d + 1]
Digits == <<"0", "1", "2", "3", "4", "5", "6", "7", "8", "9">>

\* str.replace(pat, rep): every non-overlapping occurrence, left to right
RECURSIVE ReplaceAll(_, _, _)
ReplaceAll(s, pat, rep) ==
    IF s = <<>> THEN <<>>
    ELSE IF Len(pat) <= Len(s) /\ SubSeq(s, 1, Len(pat)) = pat
         THEN rep \o ReplaceAll(SubSeq(s, Len(pat) + 1, Len(s)), pat, rep)
         ELSE <<Head(s)>> \o ReplaceAll(Tail(s), pat, rep)

\* str.strip()
RECURSIVE Strip(_)
Strip(s) ==
    IF s # <<>> /\ Head(s) = " " THEN Strip(Tail(s))
    ELSE IF s # <<>> /\ s[Len(s)] = " " THEN Strip(SubSeq(s, 1, Len(s) - 1))
    ELSE s

RECURSIVE DigitsValue(_)
DigitsValue(s) ==
    IF s = <<>> THEN 0 ELSE DigitsValue(SubSeq(s, 1, Len(s) - 1)) * 10
                      + (CHOOSE d \in 0..9 : Digits[d + 1] = s[Len(s)])

AllDigits(s) == s # <<>> /\ \A i \in DOMAIN s : \E d \in DOMAIN Digits : Digits[d] = s[i]

\* The unsigned numerals the model reads: d+ or d+.d or d+.dd, and inf
UnsignedValue(s) ==
    LET dots == {i \in DOMAIN s : s[i] = "."}
    IN  IF dots = {} THEN
            IF AllDigits(s) THEN Num(DigitsValue(s) * 100)
            ELSE IF s = <<"i", "n", "f">> THEN InfCell ELSE NaNCell
        ELSE LET i    == CHOOSE j \in dots : TRUE
                 int  == SubSeq(s, 1, i - 1)
                 frac == SubSeq(s, i + 1, Len(s))
             IN  IF Cardinality(dots) = 1 /\ AllDigits(int) /\ AllDigits(frac) /\ Len(frac) <= 2
                 THEN Num(DigitsValue(int) * 100
                          + (IF Len(frac) = 1 THEN 10 * DigitsValue(frac) ELSE DigitsValue(frac)))
                 ELSE NaNCell

\* pd.to_numeric(text, errors='coerce'): the number the text spells (blanks
\* around it ignored), NaN for any other text
ParseNumber(s) ==
    LET u == Strip(s)
    IN  IF u # <<>> /\ Head(u) = "-"
        THEN LET v == UnsignedValue(Tail(u))
             IN  IF v.t = "num" THEN Num(-v.n) ELSE v
        ELSE UnsignedValue(u)

RECURSIVE NatDigits(_)
NatDigits(n) == IF n < 10 THEN <<Digits[n + 1]>> ELSE NatDigits(n \div 10) \o <<Digits[(n % 10) + 1]>>

\* str(x) of a number, as astype(str) writes it
FormatNumber(n) ==
    LET a    == Abs(n)
        sign == IF n < 0 THEN <<"-">> ELSE <<>>
        int  == NatDigits(a \div 100)
        fr   == a % 100
    IN  sign \o int \o
        (IF fr = 0 THEN <<>>
         ELSE IF fr % 10 = 0 THEN <<".", Digits[(fr \div 10) + 1]>>
         ELSE <<".", Digits[(fr \div 10) + 1], Digits[(fr % 10) + 1]>>)

\* astype(str) of one cell
AsStr(c) ==
    CASE c.t = "str" -> c.s
      [] c.t = "num" -> FormatNumber(c.n)
      [] c.t = "nan" -> <<"n", "a", "n">>
      [] c.t = "inf" -> <<"i", "n", "f">>

\* pd.to_numeric(cell, errors='coerce').fillna(0): fillna replaces NaN, and
\* leaves an infinite value as it is
ToNumericFill0(c) ==
    LET v == IF c.t = "str" THEN ParseNumber(c.s) ELSE c
    IN  IF v.t = "nan" THEN Num(0) ELSE v

\* data_standardizer.py:145-153, the clean-up of one text cell
CleanText(s) ==
    LET s1 == ReplaceAll(s, <<",">>, <<>>)
        s2 == ReplaceAll(s1, <<"Z", "A", "R">>, <<>>)
        s3 == ReplaceAll(s2, <<"$">>, <<>>)
        s4 == ReplaceAll(s3, <<"%">>, <<>>)
        s5 == ReplaceAll(s4, <<"\"">>, <<>>)
        s6 == Strip(s5)
        s7 == ReplaceAll(s6, <<"-", "-">>, <<"0">>)
    IN  ReplaceAll(s7, <<"<", " ", "0", ".", "0", "1">>, <<"0">>)

\* DataStandardizer._ensure_numeric_columns.  A column's dtype is object when
\* some cell of it is a text: its cells are cleaned as strings first.
EnsureNumericColumns(f, columns) ==
    [cols |-> f.cols \cup columns,
     rows |-> [i \in DOMAIN f.rows |->
                 [c \in f.cols \cup columns |->
                    IF c \notin columns THEN f.rows[i][c]
                    ELSE IF c \notin f.cols THEN Num(0)
                    ELSE IF \E j \in DOMAIN f.rows : f.rows[j][c].t = "str"
                         THEN ToNumericFill0(Txt(CleanText(AsStr(f.rows[i][c]))))
                         ELSE ToNumericFill0(f.rows[i][c])]]]

-----------------------------------------------------------------------------
(* The schema standardizer (data_standardizer.py) *)

GA4Mappings ==
    << <<"sessions", "sessions">>, <<"users", "users">>, <<"newUsers", "new_users">>,
       <<"pageviews", "pageviews">>, <<"conversions", "conversions">>,
       <<"sessionDefaultChannelGrouping", "channel">>, <<"date", "date">>,
       <<"Sessions", "sessions">>, <<"Users", "users">>, <<"Active users", "users">>,
       <<"New users", "new_users">>, <<"Pageviews", "pageviews">>,
       <<"Page views", "pageviews">>, <<"Conversions", "conversions">>,
       <<"Date", "date">>, <<"Nth day", "date">>, <<"Channel", "channel">>,
       <<"Source", "source_medium">>, <<"Medium", "medium">> >>

MetaMappings ==
    << <<"Campaign name", "campaign_name">>, <<"Campaign", "campaign_name">>,
       <<"Ad Set Name", "adset_name">>, <<"Ad group", "adset_name">>,
       <<"Adset name", "adset_name">>, <<"Ad set name", "adset_name">>,
       <<"Ad name", "ad_name">>, <<"Day", "date">>, <<"Date", "date">>,
       <<"Reporting starts", "date">>, <<"Impressions", "impressions">>,
       <<"Impr.", "impressions">>, <<"Amount spent", "spend">>,
       <<"Amount spent (ZAR)", "spend">>, <<"Amount spent (USD)", "spend">>,
       <<"Spend", "spend">>, <<"Cost", "spend">>, <<"Results", "conversions">>,
       <<"Conversions", "conversions">>, <<"Link clicks", "clicks">>,
       <<"Clicks", "clicks">>, <<"Interactions", "clicks">>, <<"Reach", "reach">> >>

GoogleAdsMappings ==
    << <<"Campaign", "campaign_name">>, <<"Ad group", "adset_name">>,
       <<"Impr.", "impressions">>, <<"Clicks", "clicks">>, <<"Cost", "spend">>,
       <<"Conversions", "conversions">>, <<"Impressions", "impressions">>,
       <<"Ad name", "ad_name">> >>

GA4NumericColumns    == {"sessions", "users", "pageviews", "conversions"}
MetaNumericColumns   == {"impressions", "spend", "conversions", "clicks"}
GoogleNumericColumns == {"impressions", "clicks", "spend", "conversions"}

RequiredStringColumns  == {"campaign_name", "adset_name", "ad_name", "source"}
RequiredNumericColumns == {"impressions", "clicks", "spend", "conversions", "sessions",
                           "users", "pageviews", "ctr", "cpc", "cpm"}

\* the label a column has after df.rename(columns = the mappings present in df)
Renamed(mappings, c) ==
    IF \E i \in DOMAIN mappings : mappings[i][1] = c
    THEN mappings[CHOOSE i \in DOMAIN mappings : mappings[i][1] = c][2]
    ELSE c

\* the labels that two or more columns of the renamed frame carry
DuplicateLabels(f, mappings) ==
    {l \in {Renamed(mappings, c) : c \in f.cols} :
        Cardinality({c \in f.cols : Renamed(mappings, c) = l}) > 1}

\* DataStandardizer._apply_column_mappings, for a frame the renaming gives no
\* duplicate label
ApplyColumnMappings(f, mappings) ==
    LET newCols == {Renamed(mappings, c) : c \in f.cols}
        Src(l)  == CHOOSE c \in f.cols : Renamed(mappings, c) = l
    IN  [cols |-> newCols,
         rows |-> [i \in DOMAIN f.rows |-> [l \in newCols |-> f.rows[i][Src(l)]]]]

\* A tagging that extends the source the frame already has
TagOntoSource(f, tag) ==
    [cols |-> f.cols \cup {"source"},
     rows |-> [i \in DOMAIN f.rows |->
                 [c \in f.cols \cup {"source"} |->
                    IF c # "source" THEN f.rows[i][c]
                    ELSE IF "source" \in f.cols THEN Txt(tag \o AsStr(f.rows[i][c]))
                    ELSE Txt(tag)]]]

\* standardized['source'] = tag
SetSource(f, tag) ==
    [cols |-> f.cols \cup {"source"},
     rows |-> [i \in DOMAIN f.rows |->
                 [c \in f.cols \cup {"source"} |->
                    IF c = "source" THEN Txt(tag) ELSE f.rows[i][c]]]]

\* The three standardizers share one shape: rename, tag, make numeric.  A
\* numeric column whose label is carried twice makes result[col] a frame, and
\* result[col].dtype raises AttributeError.
Standardize(f, mappings, tag, numeric) ==
    IF DuplicateLabels(f, mappings) \cap numeric # {}
    THEN [raised |-> TRUE, frame |-> EmptyFrame]
    ELSE [raised |-> FALSE,
          frame  |-> EnsureNumericColumns(SetSource(ApplyColumnMappings(f, mappings), tag),
                                          numeric)]

\* The source tag each platform's standardizer writes
TagOf(platform) ==
    CASE platform = "ga4"    -> <<"g", "a", "4">>
      [] platform = "meta"   -> <<"m", "e", "t", "a">>
      [] platform = "google" -> <<"g", "o", "o", "g", "l", "e", "_", "a", "d", "s">>

standardize_ga4_data(f)  == Standardize(f, GA4Mappings, TagOf("ga4"), GA4NumericColumns)
standardize_meta_data(f) == Standardize(f, MetaMappings, TagOf("meta"), MetaNumericColumns)
standardize_google_ads_data(f) ==
    Standardize(f, GoogleAdsMappings, TagOf("google"), GoogleNumericColumns)

\* DataStandardizer.ensure_required_columns
ensure_required_columns(f) ==
    LET cols == f.cols \cup RequiredStringColumns \cup RequiredNumericColumns
    IN  [cols |-> cols,
         rows |-> [i \in DOMAIN f.rows |->
                     [c \in cols |->
                        IF c \in RequiredStringColumns THEN
                            IF c \notin f.cols \/ f.rows[i][c].t = "nan" THEN Txt(<<"U", "n", "k", "n", "o", "w", "n">>)
                            ELSE Txt(AsStr(f.rows[i][c]))
                        ELSE IF c \in RequiredNumericColumns THEN
                            IF c \notin f.cols THEN Num(0) ELSE ToNumericFill0(f.rows[i][c])
                        ELSE f.rows[i][c]]]]

-----------------------------------------------------------------------------
(* The consolidator (clean_consolidator.py) *)

\* pd.concat([a, b], ignore_index=True): the rows of a, then the rows of b,
\* over the union of the columns, NaN where a frame has no such column
Widen(row, from, to) == [c \in to |-> IF c \in from THEN row[c] ELSE NaNCell]

ConcatPrepend(a, b) ==
    LET cols == a.cols \cup b.cols
    IN  [cols |-> cols,
         rows |-> [i \in DOMAIN b.rows |-> Widen(b.rows[i], b.cols, cols)]
                  \o [i \in DOMAIN a.rows |-> Widen(a.rows[i], a.cols, cols)]]

Concat(a, b) ==
    LET cols == a.cols \cup b.cols
    IN  [cols |-> cols,
         rows |-> [i \in DOMAIN a.rows |-> Widen(a.rows[i], a.cols, cols)]
                  \o [i \in DOMAIN b.rows |-> Widen(b.rows[i], b.cols, cols)]]

\* CleanDataConsolidator._append_data: the new .data and the batch as admitted
\* (input: the frame the batch was made from)
Admit(data, b, input) == [ret |-> "True", data |-> Concat(data, b), batch |-> b, input |-> input]

AppendData(data, standardized, input) ==
    Admit(data, ensure_required_columns(standardized), input)

\* An optional frame: df is None, or df is a frame
NoFrame      == [none |-> TRUE,  f |-> EmptyFrame]
SomeFrame(f) == [none |-> FALSE, f |-> f]

\* add_ga4_data / add_meta_data / add_google_ads_data on a consolidator whose
\* .data is data: what the call returns ("False", "True", or "raised" when the
\* standardizer raises), the .data it leaves, and the batch it admitted
AddData(data, df, standardized) ==
    IF df.none \/ IsEmpty(df.f)
    THEN [ret |-> "False", data |-> data, batch |-> EmptyFrame, input |-> EmptyFrame]
    ELSE IF standardized.raised
         THEN [ret |-> "raised", data |-> data, batch |-> EmptyFrame, input |-> EmptyFrame]
         ELSE AppendData(data, standardized.frame, df.f)

add_ga4_data(data, df)        == AddData(data, df, standardize_ga4_data(df.f))
add_meta_data(data, df)       == AddData(data, df, standardize_meta_data(df.f))
add_google_ads_data(data, df) == AddData(data, df, standardize_google_ads_data(df.f))

Platforms == {"ga4", "meta", "google"}

AddFor(platform, data, df) ==
    CASE platform = "ga4"    -> add_ga4_data(data, df)
      [] platform = "meta"   -> add_meta_data(data, df)
      [] platform = "google" -> add_google_ads_data(data, df)

(* Uploaded frames.  A frame is a column set and, per row, one of two row    *)
(* variants: variant 1 holds clean numbers, variant 2 holds the texts and    *)
(* gaps an export has.                                                       *)

RawColumnSets(platform) ==
    CASE platform = "meta" ->
           { {"Campaign name", "Amount spent", "Results", "Link clicks"},
             {"Ad group", "Cost", "Spend", "Conversions"},
             {"Campaign", "Cost", "Reach", "Notes"} }
      [] platform = "google" ->
           { {"Campaign", "Ad group", "Impr.", "Clicks", "Cost", "Conversions"},
             {"Campaign", "Cost", "CTR"} }
      [] platform = "ga4" ->
           { {"Date", "Sessions", "Active users", "Conversions"},
             {"Source", "Sessions", "ctr"} }

RawCell(col, variant) ==
    IF col \in {"Campaign name", "Campaign", "Ad group", "Notes", "Date", "Source"} THEN
        IF variant = 1 THEN Txt(<<"A">>) ELSE IF col = "Campaign" THEN NaNCell ELSE Txt(<<"B">>)
    ELSE IF variant = 1 THEN
        (IF col \in {"Cost", "Amount spent", "Spend"} THEN Num(12050) ELSE Num(300))
    ELSE CASE col \in {"Cost", "Amount spent", "Spend"} -> Txt(<<"$", "1", ",", "2", "0", "0", ".", "5">>)
           [] col \in {"Conversions", "Results"}         -> Txt(<<"-", "-">>)
           [] col \in {"CTR", "ctr"}                     -> Txt(<<"2", ".", "5", "%">>)
           [] col \in {"Link clicks", "Clicks"}         -> InfCell
           [] col = "Sessions"                          -> Txt(<<"i", "n", "f">>)
           [] OTHER                                      -> NaNCell

RawFrames(platform) ==
    {[cols |-> cs, rows |-> [i \in DOMAIN sh |-> [c \in cs |-> RawCell(c, sh[i])]]] :
        cs \in RawColumnSets(platform), sh \in {<<>>, <<1>>, <<2>>, <<1, 2>>}}

OptionalFrames(platform) == {NoFrame} \cup {SomeFrame(f) : f \in RawFrames(platform)}

-----------------------------------------------------------------------------
(* Upload requests (routes/clean_insights.py) *)

NumRequests == 2
MaxBatches  == 2

Requests == 1..NumRequests

Absent      == [present |-> FALSE, df |-> NoFrame]
Present(df) == [present |-> TRUE, df |-> df]

OneRow(platform, cs) ==
    SomeFrame([cols |-> cs, rows |-> <<[c \in cs |-> RawCell(c, 1)]>>])

\* What one request uploads: per form field, no file or a file's content.
\* Cost and Spend both rename to spend: that file makes the standardizer raise.
Uploads ==
    { [ga4 |-> f[1], meta |-> f[2], google |-> f[3]] : f \in
        { <<Absent, Present(OneRow("meta", {"Campaign name", "Amount spent", "Results", "Link clicks"})),
            Absent>>,
          <<Present(OneRow("ga4", {"Date", "Sessions", "Active users", "Conversions"})), Absent,
            Present(OneRow("google", {"Campaign", "Cost", "CTR"}))>>,
          <<Absent, Present(NoFrame), Absent>>,
          <<Present(OneRow("ga4", {"Date", "Sessions", "Active users", "Conversions"})),
            Present(OneRow("meta", {"Ad group", "Cost", "Spend", "Conversions"})), Absent>>,
          <<Absent, Present(OneRow("meta", {"Campaign name", "Amount spent", "Results", "Link clicks"})),
            Present(OneRow("google", {"Campaign", "Cost", "CTR"}))>> } }

\* One branch of _process_uploaded_files: acc is the state so far
Branch(acc, platform, res) ==
    [data      |-> res.data,
     added     |-> IF res.ret = "True"
                   THEN Append(acc.added, [tag |-> TagOf(platform), batch |-> res.batch,
                                           input |-> res.input])
                   ELSE acc.added,
     processed |-> IF res.ret = "raised" THEN acc.processed
                   ELSE acc.processed \cup {<<platform, res.ret = "True">>},
     raised    |-> res.ret = "raised"]

ProcessOne(acc, platform, slot) ==
    IF acc.raised \/ ~slot.present THEN acc
    ELSE Branch(acc, platform, AddFor(platform, acc.data, slot.df))

RECURSIVE ProcessFrom(_, _, _)
ProcessFrom(acc, order, u) ==
    IF order = <<>> THEN acc
    ELSE ProcessFrom(ProcessOne(acc, Head(order), u[Head(order)]), Tail(order), u)

\* _process_uploaded_files: GA4, then Meta, then Google Ads
ProcessUploadedFiles(data, u) ==
    ProcessFrom([data |-> data, added |-> <<>>, processed |-> {}, raised |-> FALSE],
                <<"ga4", "meta", "google">>, u)

\* CleanDataConsolidator(): a new object.  The result is the heap with the
\* object in it and the object's id.
SharedConsolidator(h) ==
    [heap |-> IF h = <<>> THEN <<EmptyFrame>> ELSE h, id |-> 1]

NewConsolidator(h) ==
    [heap |-> Append(h, EmptyFrame), id |-> Len(h) + 1]

IdleRequest ==
    [pc |-> "idle", cons |-> 0, upload |-> [ga4 |-> Absent, meta |-> Absent, google |-> Absent],
     added |-> <<>>, processed |-> {}, seen |-> EmptyFrame, status |-> 0]

ConsIdle ==
    /\ heap = <<>>
    /\ admitted = <<>>
    /\ reqs = [r \in Requests |-> IdleRequest]

\* clean_insights, lines 24-28: no file at all
RejectNoFile(r) ==
    /\ reqs[r].pc = "idle"
    /\ reqs' = [reqs EXCEPT ![r].pc = "done", ![r].status = 400]
    /\ UNCHANGED <<heap, admitted, connVars, anaVars, loadVars, mcpVars>>

\* clean_insights, line 31
Construct(r) ==
    /\ reqs[r].pc = "idle"
    /\ \E u \in Uploads : \E n \in {NewConsolidator(heap)} :
             /\ heap' = n.heap
             /\ admitted' = IF Len(n.heap) > Len(admitted) THEN Append(admitted, <<>>) ELSE admitted
             /\ reqs' = [reqs EXCEPT ![r].pc = "constructed", ![r].cons = n.id, ![r].upload = u]
    /\ UNCHANGED <<connVars, anaVars, loadVars, mcpVars>>

\* clean_insights, lines 32-38
Process(r) ==
    /\ reqs[r].pc = "constructed"
    /\ \E o \in {reqs[r].cons} : \E p \in {ProcessUploadedFiles(heap[o], reqs[r].upload)} :
       LET failed == p.raised \/ ~(\E x \in p.processed : x[2])
       IN  /\ heap' = [heap EXCEPT ![o] = p.data]
           /\ admitted' = [admitted EXCEPT ![o] = @ \o p.added]
           /\ reqs' = [reqs EXCEPT ![r].pc = IF failed THEN "done" ELSE "processed",
                                   ![r].status = IF failed THEN 500 ELSE 0,
                                   ![r].added = p.added,
                                   ![r].processed = p.processed]
    /\ UNCHANGED <<connVars, anaVars, loadVars, mcpVars>>

\* clean_insights, lines 40-46: generate_insights() reads the consolidator's .data
Generate(r) ==
    /\ reqs[r].pc = "processed"
    /\ reqs' = [reqs EXCEPT ![r].pc = "done", ![r].status = 200,
                            ![r].seen = heap[reqs[r].cons]]
    /\ UNCHANGED <<heap, admitted, connVars, anaVars, loadVars, mcpVars>>

-----------------------------------------------------------------------------
(* One consolidator, any sequence of add_* calls *)

OneConsInit ==
    /\ heap = <<EmptyFrame>>
    /\ admitted = << <<>> >>
    /\ reqs = [r \in Requests |-> IdleRequest]

\* consolidator.add_<platform>_data(df), for any platform and any frame
AddCall(platform, df) ==
    /\ Len(admitted[1]) < MaxBatches
    /\ \E res \in {AddFor(platform, heap[1], df)} :
           /\ heap' = [heap EXCEPT ![1] = res.data]
           /\ admitted' = [admitted EXCEPT ![1] =
                             IF res.ret = "True"
                             THEN Append(@, [tag |-> TagOf(platform), batch |-> res.batch,
                                             input |-> res.input])
                             ELSE @]
    /\ UNCHANGED <<reqs, connVars, anaVars, loadVars, mcpVars>>

-----------------------------------------------------------------------------
(* Connectors per user (credential_manager.py, data_integrator.py,         *)
(* routes/clean_ad_insights.py).  There is one CredentialManager and one   *)
(* DataIntegrator in the process; the registry of the integrator maps a    *)
(* data source name to the connector last added under that name.  A        *)
(* connector is modelled by the user whose credentials it was built from.  *)

NumUsers   == 2
NumFetches == 2

Users   == 1..NumUsers
Fetches == 1..NumFetches

\* The sources the ad routes ask for (data_sources, default both)
DataSources == {"meta_ads", "google_ads"}

\* What the credential storage holds for a user and a source: nothing,
\* credentials that validate, credentials with a field missing
Credentials == {"none", "valid", "invalid"}

NoConnector == 0

EmptyRegistry == [s \in DataSources |-> NoConnector]

\* DataIntegrator.add_connector: stores the connector only if it validates
add_connector(registry, name, owner, cred) ==
    IF cred = "valid" THEN [registry EXCEPT ![name] = owner] ELSE registry

\* CredentialManager.load_user_connectors: one connector per stored credential
load_user_connectors(registry, st, u) ==
    [s \in DataSources |->
        IF st[u][s] = "none" THEN registry[s]
        ELSE add_connector(registry, s, u, st[u][s])[s]]

\* fetch_specific_data, the filter of the registry by connector_names
FilteredConnectors(registry, names) ==
    [s \in DataSources |-> IF s \in names THEN registry[s] ELSE NoConnector]

IdleFetch ==
    [pc |-> "idle", user |-> 0, names |-> {}, used |-> {}, original |-> EmptyRegistry, status |-> 0,
     sources |-> {}]

\* The source identifier a connector writes on every row it fetches
\* (MetaAdsConnector.fetch_data line 124, GoogleAdsConnector.fetch_data line 250)
ConnectorSource(name) ==
    CASE name = "meta_ads"   -> <<"m", "e", "t", "a", "_", "a", "d", "s">>
      [] name = "google_ads" -> <<"g", "o", "o", "g", "l", "e", "_", "a", "d", "s">>

ConnIdle ==
    /\ store = [u \in Users |-> [s \in DataSources |-> "none"]]
    /\ connectors = EmptyRegistry
    /\ fetches = [f \in Fetches |-> IdleFetch]

\* An ad route up to its first suspension: load_user_connectors(user_id), then
\* fetch_specific_data filters the registry, swaps it in and starts the tasks
StartFetch(f, u, names, loaded, filtered) ==
    IF filtered = EmptyRegistry
    THEN /\ connectors' = loaded
         /\ fetches' = [fetches EXCEPT ![f] =
                [pc |-> "done", user |-> u, names |-> names, used |-> {},
                 original |-> EmptyRegistry, status |-> 404, sources |-> {}]]
    ELSE /\ connectors' = filtered
         /\ fetches' = [fetches EXCEPT ![f] =
                [pc |-> "awaiting", user |-> u, names |-> names, used |-> {<<s, filtered[s]>> : s \in {x \in DataSources : filtered[x] # NoConnector}},
                 original |-> loaded, status |-> 0, sources |-> {}]]

AdRequest(f, u, names) ==
    /\ fetches[f].pc = "idle"
    /\ \E loaded \in {load_user_connectors(connectors, store, u)} :
           StartFetch(f, u, names, loaded, FilteredConnectors(loaded, names))
    /\ UNCHANGED <<store, consVars, anaVars, loadVars, mcpVars>>

\* fetch_specific_data(connector_names, ...) called on the integrator as it is,
\* up to its await
FetchSpecificData(f, names) ==
    /\ fetches[f].pc = "idle"
    /\ StartFetch(f, 1, names, connectors, FilteredConnectors(connectors, names))
    /\ UNCHANGED <<store, consVars, anaVars, loadVars, mcpVars>>

\* The tasks finished: fetch_all_data concatenates the frames of the connectors
\* that returned rows (returned), and fetch_specific_data's finally restores the
\* registry.  sources holds the values of the combined frame's source column.
FetchDone(f, returned) ==
    /\ fetches[f].pc = "awaiting"
    /\ returned \subseteq {x[1] : x \in fetches[f].used}
    /\ connectors' = fetches[f].original
    /\ fetches' = [fetches EXCEPT ![f].pc = "done", ![f].status = 200,
                                  ![f].sources = {ConnectorSource(s) : s \in returned}]
    /\ UNCHANGED <<store, consVars, anaVars, loadVars, mcpVars>>

\* credential_manager.load_user_connectors(user_id): _create_connector on every
\* stored credential.  _create_connector returns True once add_connector has
\* returned (lines 62-64); the constructors of the connectors only store their
\* arguments and do not raise.  out holds what the call returned.
LoadUserConnectors(u) ==
    /\ connectors' = load_user_connectors(connectors, store, u)
    /\ called' = "load_user_connectors"
    /\ out' = [kind |-> "results", user |-> u,
               results |-> [s \in DataSources |->
                              IF store[u][s] = "none" THEN "absent" ELSE "True"]]
    /\ UNCHANGED <<store, fetches, dataset, dsCols, consVars, loadVars, mcpVars>>

\* credential_manager.remove_user_connector(user_id, data_source):
\* integrator.remove_connector(data_source), then storage.delete_credentials,
\* whose result (a row was deleted) is returned
RemoveUserConnector(u, data_source) ==
    /\ connectors' = [connectors EXCEPT ![data_source] = NoConnector]
    /\ store' = [store EXCEPT ![u][data_source] = "none"]
    /\ called' = "remove_user_connector"
    /\ out' = [kind |-> "removed", user |-> u, data_source |-> data_source,
               ret |-> store[u][data_source] # "none"]
    /\ UNCHANGED <<fetches, dataset, dsCols, consVars, loadVars, mcpVars>>

-----------------------------------------------------------------------------
(* Analysis (analytics/ad_performance.py, analytics/recommendation_engine.py, *)
(* insights_generator.py, routes/ad_insights.py).                           *)
(*                                                                         *)
(* Numbers.  Additive columns (spend, conversions, clicks, impressions)    *)
(* hold whole numbers.  The ratio columns of the data (ctr, cpc, cpm) hold *)
(* hundredths.  A derived ratio is a number of ten-thousandths, the        *)
(* precision of the code's round(4).  A float result is finite, NaN or     *)
(* infinite.                                                               *)

Fin(v)  == [k |-> "fin", v |-> v]
NaNVal  == [k |-> "nan", v |-> 0]

IsFin(x) == x.k = "fin"

\* One more decimal digit of a quotient: p is <<digits so far, remainder>>
NextDigit(p, d) == <<p[1] * 10 + (p[2] * 10) \div d, (p[2] * 10) % d>>

\* <<floor(r * 10^k / d), remainder>> for 0 <= r < d, digit by digit
RECURSIVE FracDigits(_, _, _)
FracDigits(r, d, k) ==
    IF k = 0 THEN <<0, r>> ELSE NextDigit(FracDigits(r, d, k - 1), d)

RECURSIVE Pow10(_)
Pow10(k) == IF k = 0 THEN 1 ELSE 10 * Pow10(k - 1)

\* Half to even, as numpy rounds: p is <<the digits after the point, the
\* remainder>> of a quotient by d whose whole part, scaled, is base
HalfEven(base, p, d) ==
    IF 2 * p[2] < d THEN base + p[1]
    ELSE IF 2 * p[2] > d THEN base + p[1] + 1
    ELSE IF (base + p[1]) % 2 = 0 THEN base + p[1] ELSE base + p[1] + 1

\* round(n / d, k) in units of 10^-k, for n >= 0 and d > 0
DivRound(n, d, k) == HalfEven((n \div d) * Pow10(k), FracDigits(n % d, d, k), d)

\* numpy's n / d on floats, rounded to k decimals: 0/0 is NaN, x/0 is infinite
FloatDiv(n, d, k) ==
    IF d = 0 THEN (IF n = 0 THEN NaNVal ELSE [k |-> "inf", v |-> 0]) ELSE Fin(DivRound(n, d, k))

\* Sum of f over the index set S
RECURSIVE SumOver(_, _)
SumOver(f, S) ==
    IF S = {} THEN 0
    ELSE LET x == CHOOSE y \in S : TRUE IN f[x] + SumOver(f, S \ {x})

\* The values of f on S, descending
RECURSIVE DescendingValues(_, _)
DescendingValues(f, S) ==
    IF S = {} THEN <<>>
    ELSE LET x == CHOOSE y \in S : \A z \in S : f[y] >= f[z]
         IN  <<f[x]>> \o DescendingValues(f, S \ {x})

\* The values of f on S, ascending
RECURSIVE SortedValues(_, _)
SortedValues(f, S) ==
    IF S = {} THEN <<>>
    ELSE LET x == CHOOSE y \in S : \A z \in S : f[y] <= f[z]
         IN  <<f[x]>> \o SortedValues(f, S \ {x})

\* Ten times the interpolated value at position h tenths of a sorted sequence
Interpolated(sorted, h) ==
    IF h % 10 = 0 THEN 10 * sorted[h \div 10 + 1]
    ELSE sorted[h \div 10 + 1] * (10 - (h % 10)) + sorted[h \div 10 + 2] * (h % 10)

\* Ten times Series.quantile(tenths / 10) of the values of f on S (S not
\* empty), pandas' linear interpolation
Quantile10(f, S, tenths) == Interpolated(SortedValues(f, S), (Cardinality(S) - 1) * tenths)

\* Series.mean() rounded to the model's unit
MeanOver(f, S) == DivRound(SumOver(f, S), Cardinality(S), 0)

(* The dataset: rows of the unified schema. *)

UnifiedColumns ==
    {"campaign_name", "source", "spend", "conversions", "clicks", "impressions",
     "ctr", "cpc", "cpm"}

MaxRows == 3

AdRow(c, s, spend, conv, clicks, impr, ctr, cpc, cpm) ==
    [campaign_name |-> c, source |-> s, spend |-> spend, conversions |-> conv,
     clicks |-> clicks, impressions |-> impr, ctr |-> ctr, cpc |-> cpc, cpm |-> cpm]

\* The rows a dataset is made of
RowTemplates ==
    { AdRow("c1", "meta",       100,  10,  50, 1000, 500, 200, 10000),
      AdRow("c1", "meta",         0,   5,   0,    0,   1,   0,     0),
      AdRow("c2", "google_ads", 600,   0,  10, 5000,  20, 6000, 12000),
      AdRow("c2", "google_ads", 100, 200, 100, 2000, 500, 100,  5000),
      AdRow("c3", "meta",       100, 200, 100, 2000, 500, 100,  5000),
      AdRow("c1", "google_ads", 100, 200, 100, 2000, 500, 100,  5000),
      AdRow("c3", "google_ads",   0,   0,   0,    0,   0,   0,     0),
      AdRow("c1", "meta",        40,   1,  20, 2000, 100, 200,  2000) }

RECURSIVE RowSeqs(_)
RowSeqs(n) ==
    IF n = 0 THEN {<<>>}
    ELSE RowSeqs(n - 1) \cup
         {Append(s, r) : s \in {x \in RowSeqs(n - 1) : Len(x) = n - 1}, r \in RowTemplates}

Column(ds, col) == [i \in DOMAIN ds |-> ds[i][col]]

\* conversions / (spend + 0.001), in ten-thousandths
RoasOf(conversions, spend) == DivRound(conversions * 1000, spend * 1000 + 1, 4)

\* The roas column: conversions / (spend + 0.001) per row
Roas(ds)  == [i \in DOMAIN ds |-> RoasOf(ds[i].conversions, ds[i].spend)]

\* ctr in ten-thousandths
Ctr4(ds)  == [i \in DOMAIN ds |-> ds[i].ctr * 100]

GroupKeys(ds, by) == {ds[i][by] : i \in DOMAIN ds}

GroupRows(ds, by, key) == {i \in DOMAIN ds : ds[i][by] = key}

(* Budget reallocation (routes/ad_insights.py, _calculate_budget_reallocation) *)

Raised == [kind |-> "raised"]

ErrorResult == [kind |-> "error"]

\* roas * ctr * 100 per row (line 980), in ten-thousandths
EfficiencyScore(ds) ==
    [i \in DOMAIN ds |-> RoasOf(ds[i].conversions, ds[i].spend) * ds[i].ctr]

\* One row of campaign_performance (lines 983-989)
Performance(ds, S) ==
    [rows             |-> S,
     spend            |-> SumOver(Column(ds, "spend"), S),
     conversions      |-> SumOver(Column(ds, "conversions"), S),
     roas             |-> MeanOver(Roas(ds), S),
     ctr              |-> MeanOver(Ctr4(ds), S),
     efficiency_score |-> MeanOver(EfficiencyScore(ds), S)]

CampaignPerformance(ds) ==
    [c \in GroupKeys(ds, "campaign_name") |-> Performance(ds, GroupRows(ds, "campaign_name", c))]

TotalOf(cp, col) == SumOver([c \in DOMAIN cp |-> cp[c][col]], DOMAIN cp)

\* optimal_budget_pct / 100 * total_budget, rounded to cents (line 998)
OptimalAmount(opt, budget) ==
    IF IsFin(opt) THEN Fin(DivRound(opt.v * budget, 100, 0)) ELSE NaNVal

\* The columns lines 993-1002 add to one campaign: percentages in hundredths
\* of a percent, amounts in cents
CampaignPlan(p, cur, opt, budget) ==
    [spend                 |-> p.spend,
     conversions           |-> p.conversions,
     roas                  |-> p.roas,
     efficiency_score      |-> p.efficiency_score,
     current_budget_pct    |-> cur,
     optimal_budget_pct    |-> opt,
     optimal_budget_amount |-> OptimalAmount(opt, budget),
     budget_change_pct     |-> IF IsFin(cur) /\ IsFin(opt) THEN Fin(opt.v - cur.v) ELSE NaNVal,
     budget_change_amount  |-> IF IsFin(opt)
                               THEN Fin(OptimalAmount(opt, budget).v - p.spend * 100)
                               ELSE NaNVal]

Allocate(cp, totalSpend, totalEfficiency, budget) ==
    [c \in DOMAIN cp |->
        CampaignPlan(cp[c], FloatDiv(cp[c].spend, totalSpend, 4),
                     FloatDiv(cp[c].efficiency_score, totalEfficiency, 4), budget)]

\* The place of a key among the sorted keys of a groupby
Rank(key) ==
    CHOOSE i \in 1..9 :
        <<"c1", "c2", "c3", "c4", "c5", "c6", "ga4", "google_ads", "meta">>[i] = key

\* sort_values('budget_change_amount') and .head(10) on the campaigns S, largest
\* change first (sign 1, ascending=False) or smallest first (sign -1); equal
\* amounts stay in the order of the groupby keys
RECURSIVE ByChange(_, _, _)
ByChange(plan, S, sign) ==
    IF S = {} THEN <<>>
    ELSE LET first == CHOOSE c \in S : \A d \in S :
                        \/ sign * plan[d].budget_change_amount.v
                               < sign * plan[c].budget_change_amount.v
                        \/ /\ plan[d].budget_change_amount.v = plan[c].budget_change_amount.v
                           /\ Rank(c) <= Rank(d)
         IN  SubSeq(<<first>> \o ByChange(plan, S \ {first}, sign), 1,
                    IF Cardinality(S) < 10 THEN Cardinality(S) ELSE 10)

\* Lines 1005-1007, 1009-1050 and 1052-1075.  The projected_* fields of the
\* summary are not part of the model.
BudgetResult(cp, plan, budget) ==
    [kind             |-> "result",
     total_budget     |-> budget,
     plan             |-> plan,
     reallocation_steps |->
        (IF \E c \in DOMAIN plan : IsFin(plan[c].budget_change_amount)
                                     /\ plan[c].budget_change_amount.v < -5000
         THEN << [step |-> 1, action |-> "DECREASE_BUDGETS",
                  campaigns |-> ByChange(plan,
                      {c \in DOMAIN plan : IsFin(plan[c].budget_change_amount)
                                            /\ plan[c].budget_change_amount.v < -5000}, -1)] >>
         ELSE <<>>) \o
        (IF \E c \in DOMAIN plan : IsFin(plan[c].budget_change_amount)
                                     /\ plan[c].budget_change_amount.v > 5000
         THEN << [step |-> 2, action |-> "INCREASE_BUDGETS",
                  campaigns |-> ByChange(plan,
                      {c \in DOMAIN plan : IsFin(plan[c].budget_change_amount)
                                            /\ plan[c].budget_change_amount.v > 5000}, 1)] >>
         ELSE <<>>),
     increase_budget  |-> {c \in DOMAIN plan : IsFin(plan[c].budget_change_amount)
                                               /\ plan[c].budget_change_amount.v > 5000},
     decrease_budget  |-> {c \in DOMAIN plan : IsFin(plan[c].budget_change_amount)
                                               /\ plan[c].budget_change_amount.v < -5000},
     maintain_budget  |-> {c \in DOMAIN plan : IsFin(plan[c].budget_change_amount)
                                               /\ Abs(plan[c].budget_change_amount.v) <= 5000},
     total_efficiency |-> TotalOf(cp, "efficiency_score"),
     current_avg_roas |-> FloatDiv(TotalOf(cp, "conversions"), TotalOf(cp, "spend"), 2),
     groups           |-> {[by |-> "campaign_name", key |-> c, rows |-> cp[c].rows,
                            roas |-> cp[c].roas, spend |-> cp[c].spend,
                            conversions |-> cp[c].conversions] : c \in DOMAIN cp},
     nums             |-> UNION {{plan[c].current_budget_pct, plan[c].optimal_budget_pct,
                                  plan[c].optimal_budget_amount, plan[c].budget_change_amount}
                                 : c \in DOMAIN plan}]

BudgetOf(cp, budget) ==
    BudgetResult(cp, Allocate(cp, TotalOf(cp, "spend"), TotalOf(cp, "efficiency_score"), budget),
                 budget)

\* What _calculate_budget_reallocation(df, total_budget) can give.  A frame
\* without columns raises KeyError at line 979.  On a frame with columns and
\* no rows the sums are 0 and line 1054 divides 0 by 0: NaN when the columns
\* are float64, ZeroDivisionError when they are object columns.
calculate_budget_reallocation(ds, cols, budget) ==
    IF cols = {} THEN {Raised}
    ELSE IF ds = <<>> THEN {Raised, BudgetOf(CampaignPerformance(ds), budget)}
    ELSE {BudgetOf(CampaignPerformance(ds), budget)}

Budgets == {1000, 10000}

AnaIdle ==
    /\ dataset = <<>>
    /\ dsCols = {}
    /\ called = "none"
    /\ out = [kind |-> "none"]

\* The datasets the entry points are called on: a frame of no columns, or a
\* frame of the unified columns with any rows, none included
AnaInit ==
    /\ dataset \in RowSeqs(MaxRows)
    /\ dsCols \in (IF dataset = <<>> THEN {{}, UnifiedColumns} ELSE {UnifiedColumns})
    /\ called = "none"
    /\ out = [kind |-> "none"]

\* _calculate_budget_reallocation(df, total_budget); it adds its columns to df
CalculateBudgetReallocation(budget) ==
    /\ called = "none"
    /\ called' = "calculate_budget_reallocation"
    /\ out' \in calculate_budget_reallocation(dataset, dsCols, budget)
    /\ dsCols' = IF dsCols = {} THEN dsCols ELSE dsCols \cup {"roas", "efficiency_score"}
    /\ UNCHANGED <<dataset, consVars, connVars, loadVars, mcpVars>>

(* Recommendations (analytics/recommendation_engine.py, routes/ad_insights.py) *)

\* groupby sorts its keys; idxmax / idxmin take the first of equal values
IdxMax(perf, col) ==
    CHOOSE p \in DOMAIN perf : \A q \in DOMAIN perf :
        perf[q][col] < perf[p][col] \/ (perf[q][col] = perf[p][col] /\ Rank(p) <= Rank(q))

IdxMin(perf, col) ==
    CHOOSE p \in DOMAIN perf : \A q \in DOMAIN perf :
        perf[q][col] > perf[p][col] \/ (perf[q][col] = perf[p][col] /\ Rank(p) <= Rank(q))

\* df[df['spend'] >= min_spend]
SignificantSpend(ds, min_spend) == {i \in DOMAIN ds : ds[i].spend >= min_spend}

\* ctr < ctr.quantile(0.2) and roas < 1.0, within the rows S; roas < 1.0 is
\* conversions < spend + 0.001
PoorPerformers(ds, S) ==
    {i \in S : /\ 10 * Ctr4(ds)[i] < Quantile10(Ctr4(ds), S, 2)
               /\ ds[i].conversions * 1000 < ds[i].spend * 1000 + 1}

\* roas > roas.quantile(0.8) and ctr > ctr.mean(), within the rows S
TopPerformers(ds, S) ==
    {i \in S : /\ 10 * Roas(ds)[i] > Quantile10(Roas(ds), S, 8)
               /\ ds[i].ctr * Cardinality(S) > SumOver(Column(ds, "ctr"), S)}

\* groupby(by).agg({'roas': 'mean', 'ctr': 'mean', 'spend': 'sum',
\* 'conversions': 'sum'}).round(4) over the rows S; rows names the rows of
\* each group
MeanRoasGroups(ds, S, by) ==
    [key \in {ds[i][by] : i \in S} |->
        [by          |-> by,
         key         |-> key,
         rows        |-> {i \in S : ds[i][by] = key},
         roas        |-> MeanOver(Roas(ds), {i \in S : ds[i][by] = key}),
         ctr         |-> MeanOver(Ctr4(ds), {i \in S : ds[i][by] = key}),
         spend       |-> SumOver(Column(ds, "spend"), {i \in S : ds[i][by] = key}),
         conversions |-> SumOver(Column(ds, "conversions"), {i \in S : ds[i][by] = key})]]

\* best_roas > worst_roas * 1.5 between at least two platforms
PlatformShift(perf) ==
    /\ Cardinality(DOMAIN perf) >= 2
    /\ 2 * perf[IdxMax(perf, "roas")].roas > 3 * perf[IdxMin(perf, "roas")].roas

\* The entries of a recommendation list, in rule order, for the rules fired
RECURSIVE Entries(_, _)
Entries(order, fired) ==
    IF order = <<>> THEN <<>>
    ELSE (IF Head(order) \in fired THEN <<Head(order)>> ELSE <<>>) \o Entries(Tail(order), fired)

GroupSet(perf) == {perf[k] : k \in DOMAIN perf}

\* affected holds, per entry that has one, its affected_campaigns /
\* affected_ads: rows of the data or campaigns (keys of the grouped frame)
RecommendationResult(recs, fired, groups, affected) ==
    [kind |-> "result", recs |-> recs, fired |-> fired, groups |-> groups,
     affected |-> affected,
     nums |-> UNION {{Fin(g.roas), Fin(g.ctr)} : g \in groups}]

\* RecommendationEngine: the rules that fire (pausing, scaling, platform
\* shift, restructuring of campaigns with roas < 0.5 and spend > 500)
EngineFired(ds, S, platforms, campaigns) ==
    (IF S # {} /\ PoorPerformers(ds, S) # {} THEN {"pause_campaigns"} ELSE {}) \cup
    (IF S # {} /\ TopPerformers(ds, S) # {} THEN {"scale_campaigns"} ELSE {}) \cup
    (IF PlatformShift(platforms) THEN {"platform_shift"} ELSE {}) \cup
    (IF \E c \in DOMAIN campaigns : campaigns[c].roas < 5000 /\ campaigns[c].spend > 500
     THEN {"campaign_restructure"} ELSE {})

\* Line 52: the list, or the one sentinel entry when the list is empty
OrSentinel(recs) == IF recs = <<>> THEN <<"no_specific_recommendations">> ELSE recs

\* _format_campaign_list(df, limit=5) on the rows P: .head(limit)
FormatCampaignList(P, limit) == {i \in P : Cardinality({j \in P : j < i}) < limit}

\* The affected_campaigns of the engine's entries: _format_campaign_list of
\* the poor and of the top performers (lines 77, 100), and
\* underperforming.head(5) of the grouped campaigns (line 162)
EngineAffected(ds, S, campaigns, fired) ==
    [rule \in fired \ {"platform_shift"} |->
        CASE rule = "pause_campaigns" -> FormatCampaignList(PoorPerformers(ds, S), 5)
          [] rule = "scale_campaigns" -> FormatCampaignList(TopPerformers(ds, S), 5)
          [] OTHER ->
               {c \in DOMAIN campaigns :
                   /\ campaigns[c].roas < 5000 /\ campaigns[c].spend > 500
                   /\ Cardinality({d \in DOMAIN campaigns :
                                      /\ campaigns[d].roas < 5000 /\ campaigns[d].spend > 500
                                      /\ Rank(d) < Rank(c)}) < 5}]

EngineResult(fired, platforms, campaigns, affected) ==
    RecommendationResult(
        OrSentinel(Entries(<<"pause_campaigns", "scale_campaigns", "platform_shift",
                             "campaign_restructure">>, fired)),
        fired, GroupSet(platforms) \cup GroupSet(campaigns), affected)

\* RecommendationEngine(ad_data, min_spend).generate_recommendations().  On a
\* frame without rows _prepare_data returns before it adds roas: line 56 raises
\* KeyError when there are no columns, line 108 when there are.
generate_recommendations(ds, cols, min_spend) ==
    IF ds = <<>> THEN Raised
    ELSE EngineResult(EngineFired(ds, SignificantSpend(ds, min_spend),
                                  MeanRoasGroups(ds, DOMAIN ds, "source"),
                                  MeanRoasGroups(ds, DOMAIN ds, "campaign_name")),
                      MeanRoasGroups(ds, DOMAIN ds, "source"),
                      MeanRoasGroups(ds, DOMAIN ds, "campaign_name"),
                      EngineAffected(ds, SignificantSpend(ds, min_spend),
                                     MeanRoasGroups(ds, DOMAIN ds, "campaign_name"),
                                     EngineFired(ds, SignificantSpend(ds, min_spend),
                                                 MeanRoasGroups(ds, DOMAIN ds, "source"),
                                                 MeanRoasGroups(ds, DOMAIN ds, "campaign_name"))))

\* routes/ad_insights.py, _generate_recommendations: the rules that fire
RouteFired(ds, S, platforms, campaigns) ==
    (IF PoorPerformers(ds, S) # {} THEN {"stop_ads"} ELSE {}) \cup
    (IF TopPerformers(ds, S) # {} THEN {"scale_ads"} ELSE {}) \cup
    (IF PlatformShift(platforms) THEN {"platform_shift"} ELSE {}) \cup
    (IF \E c \in DOMAIN campaigns : campaigns[c].roas < 5000
     THEN {"campaign_review"} ELSE {})

\* The affected_ads of the route's entries: the first 5 records of the poor
\* and of the top performers (lines 651, 666), and for campaign_review
\* underperforming_campaigns.to_dict('index') (line 702)
RouteAffected(ds, S, campaigns, fired) ==
    [rule \in fired \ {"platform_shift"} |->
        CASE rule = "stop_ads"  -> FormatCampaignList(PoorPerformers(ds, S), 5)
          [] rule = "scale_ads" -> FormatCampaignList(TopPerformers(ds, S), 5)
          [] OTHER -> {c \in DOMAIN campaigns : campaigns[c].roas < 5000}]

\* Line 705: the list as it is
RouteResult(fired, platforms, campaigns, affected) ==
    RecommendationResult(
        Entries(<<"stop_ads", "scale_ads", "platform_shift", "campaign_review">>, fired),
        fired, GroupSet(platforms) \cup GroupSet(campaigns), affected)

\* _generate_recommendations(df, min_spend): KeyError at line 628 on a frame
\* without columns, the warning entry when no row has the minimum spend
route_generate_recommendations(ds, cols, min_spend) ==
    IF cols = {} THEN Raised
    ELSE IF SignificantSpend(ds, min_spend) = {}
         THEN RecommendationResult(<<"warning">>, {}, {}, <<>>)
    ELSE RouteResult(RouteFired(ds, SignificantSpend(ds, min_spend),
                                MeanRoasGroups(ds, SignificantSpend(ds, min_spend), "source"),
                                MeanRoasGroups(ds, SignificantSpend(ds, min_spend), "campaign_name")),
                     MeanRoasGroups(ds, SignificantSpend(ds, min_spend), "source"),
                     MeanRoasGroups(ds, SignificantSpend(ds, min_spend), "campaign_name"),
                     RouteAffected(ds, SignificantSpend(ds, min_spend),
                                   MeanRoasGroups(ds, SignificantSpend(ds, min_spend), "campaign_name"),
                                   RouteFired(ds, SignificantSpend(ds, min_spend),
                                              MeanRoasGroups(ds, SignificantSpend(ds, min_spend), "source"),
                                              MeanRoasGroups(ds, SignificantSpend(ds, min_spend), "campaign_name"))))

MinSpends == {50, 100}

MaxCampaigns == 6

ManyCampaignNames == <<"c1", "c2", "c3", "c4", "c5", "c6">>

\* Rows of many campaigns: one that spends 600 and converts nothing (kind 1),
\* one that spends 100 and converts well, one that spends 60 with a low ctr
ManyCampaignRow(c, kind) ==
    <<AdRow(c, "google_ads", 600, 0, 10, 5000, 20, 6000, 12000),
      AdRow(c, "meta", 100, 200, 100, 2000, 500, 100, 5000),
      AdRow(c, "meta", 60, 1, 20, 2000, 100, 200, 2000)>>[kind]

\* RecommendationEngine(ad_data, min_spend).generate_recommendations()
GenerateRecommendations(min_spend) ==
    /\ called = "none"
    /\ called' = "generate_recommendations"
    /\ out' = generate_recommendations(dataset, dsCols, min_spend)
    /\ UNCHANGED <<dataset, dsCols, consVars, connVars, loadVars, mcpVars>>

\* routes/ad_insights.py: _generate_recommendations(df, min_spend)
RouteGenerateRecommendations(min_spend) ==
    /\ called = "none"
    /\ called' = "_generate_recommendations"
    /\ out' = route_generate_recommendations(dataset, dsCols, min_spend)
    /\ UNCHANGED <<dataset, dsCols, consVars, connVars, loadVars, mcpVars>>

(* AdPerformanceAnalyzer (analytics/ad_performance.py) *)

\* .replace([inf, -inf], 0).fillna(0)
Scrub(x) == IF IsFin(x) THEN x ELSE Fin(0)

\* _prepare_data, lines 25-32: the derived columns, epsilon in the
\* denominator, then scrubbed; in ten-thousandths
PreparedRoas(ds) ==
    [i \in DOMAIN ds |->
        Scrub(FloatDiv(ds[i].conversions * 1000, ds[i].spend * 1000 + 1, 4)).v]

PreparedConversionRate(ds) ==
    [i \in DOMAIN ds |->
        Scrub(FloatDiv(ds[i].conversions * 1000, ds[i].clicks * 1000 + 1, 4)).v]

Cpc4(ds) == [i \in DOMAIN ds |-> ds[i].cpc * 100]

\* _calculate_overall_metrics
OverallMetrics(ds) ==
    [total_spend       |-> SumOver(Column(ds, "spend"), DOMAIN ds),
     total_conversions |-> SumOver(Column(ds, "conversions"), DOMAIN ds),
     total_clicks      |-> SumOver(Column(ds, "clicks"), DOMAIN ds),
     total_impressions |-> SumOver(Column(ds, "impressions"), DOMAIN ds),
     average_ctr       |-> MeanOver(Ctr4(ds), DOMAIN ds),
     average_cpc       |-> MeanOver(Cpc4(ds), DOMAIN ds),
     overall_roas      |-> RoasOf(SumOver(Column(ds, "conversions"), DOMAIN ds),
                                      SumOver(Column(ds, "spend"), DOMAIN ds))]

\* One group of _compare_platforms / _summarize_campaigns: additive columns
\* summed, ctr, cpc and cpm averaged, roas and conversion_rate from the sums
SummedGroup(by, key, G, spend, conversions, clicks, impressions, ctr, cpc, cpm) ==
    [by              |-> by,
     key             |-> key,
     rows            |-> G,
     spend           |-> spend,
     conversions     |-> conversions,
     clicks          |-> clicks,
     impressions     |-> impressions,
     ctr             |-> ctr,
     cpc             |-> cpc,
     cpm             |-> cpm,
     roas            |-> RoasOf(conversions, spend),
     conversion_rate |-> DivRound(conversions * 1000, clicks * 1000 + 1, 4)]

SummedGroups(ds, by) ==
    {SummedGroup(by, key, GroupRows(ds, by, key),
                 SumOver(Column(ds, "spend"), GroupRows(ds, by, key)),
                 SumOver(Column(ds, "conversions"), GroupRows(ds, by, key)),
                 SumOver(Column(ds, "clicks"), GroupRows(ds, by, key)),
                 SumOver(Column(ds, "impressions"), GroupRows(ds, by, key)),
                 MeanOver(Ctr4(ds), GroupRows(ds, by, key)),
                 MeanOver(Cpc4(ds), GroupRows(ds, by, key)),
                 MeanOver([i \in DOMAIN ds |-> ds[i].cpm * 100], GroupRows(ds, by, key)))
        : key \in GroupKeys(ds, by)}

\* The first limit rows of S, in row order (.head(limit))
FirstRows(S, limit) ==
    SubSeq(SortedValues([i \in S |-> i], S), 1,
           IF Cardinality(S) < limit THEN Cardinality(S) ELSE limit)

\* _find_top_performers: per metric, the rows at or above the 0.9 quantile
TopOf(f, S, limit) == FirstRows({i \in S : 10 * f[i] >= Quantile10(f, S, 9)}, limit)

\* _find_bottom_performers: per metric, the rows at or below the 0.1 quantile
BottomOf(f, S, limit) == FirstRows({i \in S : 10 * f[i] <= Quantile10(f, S, 1)}, limit)

ListLimit == 10

FindTopPerformers(ds) ==
    [ctr             |-> TopOf(Ctr4(ds), DOMAIN ds, ListLimit),
     cpc             |-> TopOf(Cpc4(ds), DOMAIN ds, ListLimit),
     roas            |-> TopOf(PreparedRoas(ds), DOMAIN ds, ListLimit),
     conversion_rate |-> TopOf(PreparedConversionRate(ds), DOMAIN ds, ListLimit)]

\* _find_bottom_performers: among the rows with spend >= 50
FindBottomPerformers(ds) ==
    IF SignificantSpend(ds, 50) = {} THEN <<>>
    ELSE [ctr             |-> BottomOf(Ctr4(ds), SignificantSpend(ds, 50), ListLimit),
          roas            |-> BottomOf(PreparedRoas(ds), SignificantSpend(ds, 50), ListLimit),
          conversion_rate |-> BottomOf(PreparedConversionRate(ds), SignificantSpend(ds, 50),
                                       ListLimit)]

AnalysisResult(overall, groups, top, bottom) ==
    [kind              |-> "result",
     overall_metrics   |-> overall,
     groups            |-> groups,
     top_performers    |-> top,
     bottom_performers |-> bottom,
     nums              |-> UNION {{Fin(g.roas), Fin(g.conversion_rate), Fin(g.ctr),
                                    Fin(g.cpc), Fin(g.cpm)} : g \in groups} \cup
                           {Fin(overall.average_ctr), Fin(overall.average_cpc),
                            Fin(overall.overall_roas)}]

\* AdPerformanceAnalyzer(ad_data).analyze_performance()
analyze_performance(ds, cols) ==
    IF ds = <<>> THEN ErrorResult
    ELSE AnalysisResult(OverallMetrics(ds),
                        SummedGroups(ds, "source") \cup SummedGroups(ds, "campaign_name"),
                        FindTopPerformers(ds), FindBottomPerformers(ds))

AnalyzePerformance ==
    /\ called = "none"
    /\ called' = "analyze_performance"
    /\ out' = analyze_performance(dataset, dsCols)
    /\ UNCHANGED <<dataset, dsCols, consVars, connVars, loadVars, mcpVars>>

(* ActionPlanGenerator (analytics/recommendation_engine.py) *)

\* _get_immediate_actions; roas < 0.5 is 2 * conversions < spend + 0.001
ImmediateActions(ds) ==
    (IF \E i \in DOMAIN ds : /\ ds[i].spend >= 50
                             /\ ds[i].conversions * 2000 < ds[i].spend * 1000 + 1
                             /\ 10 * Ctr4(ds)[i] < Quantile10(Ctr4(ds), DOMAIN ds, 2)
     THEN <<"PAUSE_ADS">> ELSE <<>>) \o
    (IF \E i \in TopPerformers(ds, DOMAIN ds) : ds[i].spend >= 100
     THEN <<"INCREASE_BUDGET">> ELSE <<>>)

\* _get_weekly_actions
WeeklyActions(ds) ==
    (IF Cardinality(GroupKeys(ds, "source")) > 1 THEN <<"OPTIMIZE_PLATFORMS">> ELSE <<>>)
    \o <<"RESTRUCTURE_CAMPAIGNS">>

\* _calculate_expected_impact: roas in hundredths, int() of the improvements
ExpectedImpact(spend, conversions) ==
    [spend       |-> spend,
     conversions |-> conversions,
     roas        |-> DivRound(conversions * 1000, spend * 1000 + 1, 2),
     immediate   |-> (conversions * 20) \div 100,
     weekly      |-> (conversions * 35) \div 100,
     monthly     |-> (conversions * 60) \div 100]

ActionPlan(immediate, weekly, impact) ==
    [kind              |-> "result",
     immediate_actions |-> immediate,
     weekly_actions    |-> weekly,
     monthly_actions   |-> <<"CREATIVE_TESTING", "AUDIENCE_EXPANSION">>,
     expected_impact   |-> impact,
     nums              |-> {Fin(impact.roas)}]

\* ActionPlanGenerator(ad_data).generate_action_plan()
generate_action_plan(ds, cols) ==
    IF ds = <<>> THEN ErrorResult
    ELSE ActionPlan(ImmediateActions(ds), WeeklyActions(ds),
                    ExpectedImpact(SumOver(Column(ds, "spend"), DOMAIN ds),
                                   SumOver(Column(ds, "conversions"), DOMAIN ds)))

GenerateActionPlan ==
    /\ called = "none"
    /\ called' = "generate_action_plan"
    /\ out' = generate_action_plan(dataset, dsCols)
    /\ UNCHANGED <<dataset, dsCols, consVars, connVars, loadVars, mcpVars>>

(* CleanDataConsolidator.generate_insights (clean_consolidator.py,          *)
(* insights_generator.py).  Its ratios are in hundredths (round(..., 2)).   *)

\* InsightsGenerator._calculate_roas: 0.0 when spend is 0
CalculateRoas(conversions, spend) ==
    IF spend = 0 THEN 0 ELSE DivRound(conversions, spend, 2)

\* InsightsGenerator._calculate_ctr: a percentage
CalculateCtr(clicks, impressions) ==
    IF impressions = 0 THEN 0 ELSE DivRound(clicks * 100, impressions, 2)

\* InsightsGenerator._calculate_conversion_rate: a percentage
CalculateConversionRate(conversions, clicks) ==
    IF clicks = 0 THEN 0 ELSE DivRound(conversions * 100, clicks, 2)

\* generate_summary
GenerateSummary(ds) ==
    [total_records     |-> Len(ds),
     data_sources      |-> [s \in GroupKeys(ds, "source") |-> Cardinality(GroupRows(ds, "source", s))],
     total_spend       |-> SumOver(Column(ds, "spend"), DOMAIN ds),
     total_conversions |-> SumOver(Column(ds, "conversions"), DOMAIN ds),
     total_clicks      |-> SumOver(Column(ds, "clicks"), DOMAIN ds),
     overall_roas      |-> CalculateRoas(SumOver(Column(ds, "conversions"), DOMAIN ds),
                                         SumOver(Column(ds, "spend"), DOMAIN ds))]

PlatformStats(spend, conversions, clicks, impressions) ==
    [spend           |-> spend,
     conversions     |-> conversions,
     clicks          |-> clicks,
     impressions     |-> impressions,
     roas            |-> CalculateRoas(conversions, spend),
     ctr             |-> CalculateCtr(clicks, impressions),
     conversion_rate |-> CalculateConversionRate(conversions, clicks)]

\* analyze_platform_performance
AnalyzePlatformPerformance(ds) ==
    [s \in GroupKeys(ds, "source") |->
        PlatformStats(SumOver(Column(ds, "spend"), GroupRows(ds, "source", s)),
                      SumOver(Column(ds, "conversions"), GroupRows(ds, "source", s)),
                      SumOver(Column(ds, "clicks"), GroupRows(ds, "source", s)),
                      SumOver(Column(ds, "impressions"), GroupRows(ds, "source", s)))]

\* groupby(['source', 'campaign_name']) over the rows S: spend and conversions
\* summed, roas by _calculate_roas
CampaignStats(ds, S) ==
    [k \in {<<ds[i].source, ds[i].campaign_name>> : i \in S} |->
        [spend       |-> SumOver(Column(ds, "spend"),
                                 {i \in S : ds[i].source = k[1] /\ ds[i].campaign_name = k[2]}),
         conversions |-> SumOver(Column(ds, "conversions"),
                                 {i \in S : ds[i].source = k[1] /\ ds[i].campaign_name = k[2]}),
         roas        |-> CalculateRoas(
                             SumOver(Column(ds, "conversions"),
                                     {i \in S : ds[i].source = k[1] /\ ds[i].campaign_name = k[2]}),
                             SumOver(Column(ds, "spend"),
                                     {i \in S : ds[i].source = k[1] /\ ds[i].campaign_name = k[2]}))]]

RowsAbove(ds, spend) == {i \in DOMAIN ds : ds[i].spend > spend}

TopLimit == 5

\* nlargest(limit, 'roas'): the keys of the limit largest, as a set
NLargest(stats, limit) ==
    {k \in DOMAIN stats :
        Cardinality({j \in DOMAIN stats :
            stats[j].roas > stats[k].roas
            \/ (stats[j].roas = stats[k].roas
                /\ (Rank(j[1]) < Rank(k[1])
                    \/ (j[1] = k[1] /\ Rank(j[2]) < Rank(k[2]))))}) < limit}

\* get_top_campaigns
GetTopCampaigns(ds, stats) ==
    IF RowsAbove(ds, 50) = {} THEN [message |-> "No campaigns with significant spend"]
    ELSE [top_campaigns |-> NLargest(stats, TopLimit), total_analyzed |-> Cardinality(DOMAIN stats)]

\* InsightsGenerator.generate_recommendations: the rules that fire
InsightsFired(ds) ==
    (IF \E k \in DOMAIN CampaignStats(ds, RowsAbove(ds, 100)) :
            CampaignStats(ds, RowsAbove(ds, 100))[k].roas < 50
     THEN {"pause_campaigns"} ELSE {}) \cup
    (IF \E k \in DOMAIN CampaignStats(ds, RowsAbove(ds, 50)) :
            CampaignStats(ds, RowsAbove(ds, 50))[k].roas > 200
     THEN {"scale_campaigns"} ELSE {}) \cup
    (IF PlatformShift(AnalyzePlatformPerformance(ds)) THEN {"platform_shift"} ELSE {})

InsightsResult(summary, platforms, top, fired) ==
    [kind                 |-> "result",
     summary              |-> summary,
     platform_performance |-> platforms,
     top_campaigns        |-> top,
     recs                 |-> OrSentinel(Entries(<<"pause_campaigns", "scale_campaigns",
                                                     "platform_shift">>, fired)),
     fired                |-> fired,
     nums                 |-> {Fin(summary.overall_roas)} \cup
                              UNION {{Fin(platforms[s].roas), Fin(platforms[s].ctr),
                                      Fin(platforms[s].conversion_rate)} : s \in DOMAIN platforms}]

\* CleanDataConsolidator.generate_insights() on the consolidated data
generate_insights(ds, cols) ==
    IF ds = <<>> THEN ErrorResult
    ELSE InsightsResult(GenerateSummary(ds), AnalyzePlatformPerformance(ds),
                        GetTopCampaigns(ds, CampaignStats(ds, RowsAbove(ds, 50))),
                        InsightsFired(ds))

GenerateInsights ==
    /\ called = "none"
    /\ called' = "generate_insights"
    /\ out' = generate_insights(dataset, dsCols)
    /\ UNCHANGED <<dataset, dsCols, consVars, connVars, loadVars, mcpVars>>

-----------------------------------------------------------------------------
(* The CSV loaders: DataLoader.load_csv_from_bytes (data_loader.py), which  *)
(* the upload routes call, and _detect_encoding_and_read_csv                *)
(* (routes/ad_insights.py).  A file is described by what its bytes give     *)
(* under each codec (an error, the text that was written, or a garbled      *)
(* text) and by the shape of those texts, which fixes what pd.read_csv      *)
(* makes of them under each parsing strategy.                               *)

\* str.lower() of the encoding names in use
Lower(name) ==
    CASE name = "UTF-16"       -> "utf-16"
      [] name = "Windows-1252" -> "windows-1252"
      [] name = "ISO-8859-1"   -> "iso-8859-1"
      [] OTHER                 -> name

\* The codec Python looks up for an encoding name: windows-1252 is an alias of
\* cp1252, iso-8859-1 of latin-1
Codec(name) ==
    CASE Lower(name) = "windows-1252" -> "cp1252"
      [] Lower(name) = "iso-8859-1"   -> "latin-1"
      [] OTHER                        -> Lower(name)

Codecs == {"ascii", "utf-8", "utf-8-sig", "utf-16", "utf-16-le", "utf-16-be", "latin-1", "cp1252"}

\* What the bytes give under each codec.  latin-1 decodes any bytes; utf-8-sig
\* decodes what utf-8 decodes; ascii decodes only what utf-8 decodes alike.
Decodings ==
    {t \in [Codecs -> {"undecodable", "garbled", "true"}] :
        /\ t["latin-1"] # "undecodable"
        /\ t["utf-8-sig"] = t["utf-8"]
        /\ t["ascii"] \in {"undecodable", t["utf-8"]}
        /\ t["utf-16-le"] = t["utf-16"]
        /\ t["utf-16-be"] # "true"}

\* The shapes of a text: a header and a row, comma separated ("clean") or
\* semicolon separated; one or three title lines before the header; a single
\* column; a header without rows; nothing pd.read_csv can read
Shapes == {"clean", "semicolon", "title_rows", "deep_title", "one_column", "header_only",
           "unparsable"}

NoEncoding == "None"

\* The files: filename (with 'google' in it, or a name no parser is chosen
\* by), what chardet detects, the decodings, the shape of the true text and of
\* the garbled one
Files ==
    [name : {"google_ads.csv", "report.csv"},
     detected : {NoEncoding, "ascii", "utf-8", "UTF-16", "Windows-1252", "ISO-8859-1"},
     text : Decodings, shape : Shapes, garbled : {"unparsable", "one_column"}]

\* file_bytes.decode(encoding): the shape of the text, or "undecodable" for
\* UnicodeDecodeError
Decoded(f, encoding) ==
    CASE f.text[Codec(encoding)] = "true"    -> f.shape
      [] f.text[Codec(encoding)] = "garbled" -> f.garbled
      [] OTHER                               -> "undecodable"

\* What pd.read_csv gives on a text of the shape under the strategies of
\* _parse_generic_csv (lines 68-81): 1 default, 2 on_bad_lines='skip', 3 sep=';',
\* 4 skiprows=1, 5 skiprows=2, 6 quoting=1, 7 error_bad_lines=False, and 8, the
\* retry from later starting lines (lines 93-105, texts of more than 5 lines).
\* "frame" has rows and more than one column, "narrow" rows and one column,
\* "empty" no rows; "raises" is an exception of pandas.
ReadCsv(shape, strategy) ==
    CASE shape = "clean" ->
           <<"frame", "frame", "narrow", "empty", "raises", "frame", "raises", "none">>[strategy]
      [] shape = "semicolon" ->
           <<"narrow", "narrow", "frame", "empty", "raises", "narrow", "raises", "none">>[strategy]
      [] shape = "title_rows" ->
           <<"raises", "empty", "narrow", "frame", "empty", "raises", "raises", "none">>[strategy]
      [] shape = "deep_title" ->
           <<"raises", "narrow", "narrow", "raises", "raises", "raises", "raises", "frame">>[strategy]
      [] shape = "one_column" ->
           <<"narrow", "narrow", "narrow", "narrow", "empty", "narrow", "raises", "none">>[strategy]
      [] shape = "header_only" ->
           <<"empty", "empty", "empty", "raises", "raises", "empty", "raises", "none">>[strategy]
      [] OTHER ->
           <<"raises", "raises", "raises", "raises", "raises", "raises", "raises", "none">>[strategy]

\* DataLoader._parse_generic_csv from strategy s on: the first result with rows
\* and more than one column; a strategy that raises is skipped; None at the end
RECURSIVE ParseGenericCsv(_, _)
ParseGenericCsv(shape, s) ==
    IF s > 8 THEN "none"
    ELSE IF ReadCsv(shape, s) = "frame" THEN "frame"
    ELSE ParseGenericCsv(shape, s + 1)

\* DataLoader._parse_google_ads_csv: parses from the header row (the first line
\* with 3 of its keywords) when there is one, the whole text otherwise; None
\* when pandas raises
ParseGoogleAdsCsv(shape) ==
    CASE shape \in {"clean", "title_rows", "deep_title"} -> "frame"
      [] shape = "semicolon"                             -> "narrow"
      [] shape = "header_only"                           -> "empty"
      [] OTHER -> IF ReadCsv(shape, 1) = "raises" THEN "none" ELSE ReadCsv(shape, 1)

\* load_csv_from_bytes, line 19
LoaderEncodings ==
    <<"utf-8", "utf-8-sig", "utf-16", "utf-16-le", "utf-16-be", "latin-1", "cp1252">>

\* _detect_encoding_and_read_csv, lines 45-50: no name twice, compared in lower
\* case; None is skipped
RECURSIVE UniqueEncodings(_, _)
UniqueEncodings(names, seen) ==
    IF names = <<>> THEN <<>>
    ELSE IF Head(names) = NoEncoding \/ Lower(Head(names)) \in seen
         THEN UniqueEncodings(Tail(names), seen)
         ELSE <<Head(names)>> \o UniqueEncodings(Tail(names), seen \cup {Lower(Head(names))})

\* _detect_encoding_and_read_csv, lines 34-42: the detected encoding first
EncodingsToTry(detected) ==
    UniqueEncodings(<<detected, "utf-8", "utf-16", "utf-8-sig", "windows-1252", "iso-8859-1",
                      "cp1252">>, {})

\* load_csv_from_bytes, lines 29-47: the parser the filename selects
Parse(filename, shape) ==
    IF filename = "google_ads.csv" THEN ParseGoogleAdsCsv(shape) ELSE ParseGenericCsv(shape, 1)

Attempt(l, encoding, outcome) ==
    [l EXCEPT !.i = @ + 1, !.tried = Append(@, [encoding |-> encoding, outcome |-> outcome])]

Return(l, encoding, result) ==
    [l EXCEPT !.pc = "done", !.result = result,
              !.tried = Append(@, [encoding |-> encoding, outcome |-> result])]

\* One pass of the loop of load_csv_from_bytes (lines 21-57): UnicodeDecodeError
\* goes on to the next encoding, and so does a parser that returns None or an
\* empty frame; a frame with rows is returned.  The parsers catch what pandas
\* raises, so the handler of lines 55-57 is not entered.
LoadCsvFromBytes ==
    /\ ld # <<>> /\ ld.fn = "load_csv_from_bytes" /\ ld.pc = "run"
    /\ ld.i <= Len(LoaderEncodings)
    /\ \E encoding \in {LoaderEncodings[ld.i]} :
         \E df \in {IF Decoded(file, encoding) = "undecodable" THEN "UnicodeDecodeError"
                    ELSE Parse(file.name, Decoded(file, encoding))} :
            ld' = IF df \in {"frame", "narrow"} THEN Return(ld, encoding, df)
                  ELSE Attempt(ld, encoding, df)
    /\ UNCHANGED <<file, consVars, connVars, anaVars, mcpVars>>

\* load_csv_from_bytes, lines 59-60: no encoding gave a frame
LoadCsvNone ==
    /\ ld # <<>> /\ ld.fn = "load_csv_from_bytes" /\ ld.pc = "run"
    /\ ld.i > Len(LoaderEncodings)
    /\ ld' = [ld EXCEPT !.pc = "done", !.result = "None"]
    /\ UNCHANGED <<file, consVars, connVars, anaVars, mcpVars>>

\* One pass of the loop of _detect_encoding_and_read_csv (lines 55-75).  Every
\* pass wraps the upload in a new io.TextIOWrapper; the wrapper of a failed pass
\* closes the upload when it is finalised, which happens once nothing refers to
\* it any more (finalised: it has happened by this pass).  seek(0) on the closed
\* upload raises ValueError, which is caught like any other failure.  The frame
\* pd.read_csv gives is returned as it is.
DetectEncodingAndReadCsv(finalised) ==
    /\ ld # <<>> /\ ld.fn = "_detect_encoding_and_read_csv" /\ ld.pc = "run"
    /\ ld.i <= Len(EncodingsToTry(file.detected))
    /\ \E encoding \in {EncodingsToTry(file.detected)[ld.i]} :
         \E closed \in {ld.closed \/ (finalised /\ ld.i >= 2)} :
            \E df \in {IF closed THEN "ValueError"
                       ELSE IF Decoded(file, encoding) = "undecodable"
                            THEN "UnicodeDecodeError"
                            ELSE ReadCsv(Decoded(file, encoding), 1)} :
               ld' = IF df \in {"frame", "narrow", "empty"}
                     THEN Return([ld EXCEPT !.closed = closed], encoding, df)
                     ELSE Attempt([ld EXCEPT !.closed = closed], encoding, df)
    /\ UNCHANGED <<file, consVars, connVars, anaVars, mcpVars>>

\* _detect_encoding_and_read_csv, lines 77-83: every pass failed
ReadCsvRaise ==
    /\ ld # <<>> /\ ld.fn = "_detect_encoding_and_read_csv" /\ ld.pc = "run"
    /\ ld.i > Len(EncodingsToTry(file.detected))
    /\ ld' = [ld EXCEPT !.pc = "done", !.result = "Exception"]
    /\ UNCHANGED <<file, consVars, connVars, anaVars, mcpVars>>

-----------------------------------------------------------------------------
(* The conversion funnel: JourneyAnalyzer (analytics/journey_analyzer.py)   *)
(* and _analyze_user_journey (routes/website_analytics.py).  The dataset is *)
(* the pair of the GA4 rows and the ad rows; dsCols holds the optional      *)
(* columns the GA4 frame has.  A drop-off rate is the percentage n / d.     *)

MaxFunnelRows == 2

Ga4Rows ==
    {[sessions |-> r[1], engagementRate |-> r[2], conversions |-> r[3]] :
        r \in {<<200, 50, 20>>, <<600, 0, 0>>, <<100, 30, 0>>, <<0, 0, 0>>, <<300, 10, 100>>}}

AdRows ==
    {[clicks |-> r[1], conversions |-> r[2]] :
        r \in {<<1000, 0>>, <<100, 5>>, <<0, 0>>, <<400, 100>>}}

RECURSIVE SeqsUpTo(_, _)
SeqsUpTo(S, n) ==
    IF n = 0 THEN {<<>>}
    ELSE SeqsUpTo(S, n - 1) \cup
         {Append(s, r) : s \in {x \in SeqsUpTo(S, n - 1) : Len(x) = n - 1}, r \in S}

\* JourneyAnalyzer._calculate_funnel_metrics: the conversions are those of both
\* frames
CalculateFunnelMetrics(ga4, ads, cols) ==
    [ad_clicks        |-> SumOver(Column(ads, "clicks"), DOMAIN ads),
     website_sessions |-> SumOver(Column(ga4, "sessions"), DOMAIN ga4),
     engaged_sessions |-> IF "engagementRate" \in cols
                          THEN SumOver(Column(ga4, "sessions"),
                                       {i \in DOMAIN ga4 : ga4[i].engagementRate > 0})
                          ELSE 0,
     conversions      |-> (IF "conversions" \in cols
                           THEN SumOver(Column(ga4, "conversions"), DOMAIN ga4) ELSE 0)
                          + SumOver(Column(ads, "conversions"), DOMAIN ads)]

\* _analyze_user_journey, funnel_steps: the conversions are those of the GA4
\* frame
FunnelSteps(ga4, ads, cols) ==
    [CalculateFunnelMetrics(ga4, ads, cols) EXCEPT
        !.conversions = IF "conversions" \in cols
                        THEN SumOver(Column(ga4, "conversions"), DOMAIN ga4) ELSE 0]

\* One entry of drop_offs, written only when both counts are positive; the
\* rate is rounded to 2 decimals (JourneyAnalyzer) or left as it is (route)
DropOff(stage, upstream, downstream, rounded) ==
    IF upstream > 0 /\ downstream > 0
    THEN << [stage |-> stage, lost_users |-> upstream - downstream,
             drop_off_rate |->
                IF ~rounded THEN [n |-> (upstream - downstream) * 100, d |-> upstream]
                ELSE IF upstream >= downstream
                     THEN [n |-> DivRound((upstream - downstream) * 100, upstream, 2), d |-> 100]
                     ELSE [n |-> -DivRound((downstream - upstream) * 100, upstream, 2), d |-> 100]] >>
    ELSE <<>>

\* JourneyAnalyzer._identify_drop_offs
IdentifyDropOffs(m) ==
    DropOff("ads_to_website", m.ad_clicks, m.website_sessions, TRUE)
        \o DropOff("website_to_engagement", m.website_sessions, m.engaged_sessions, TRUE)

\* _analyze_user_journey, drop_offs
RouteDropOffs(m) ==
    DropOff("ads_to_website", m.ad_clicks, m.website_sessions, FALSE)
        \o DropOff("website_to_engagement", m.website_sessions, m.engaged_sessions, FALSE)
        \o DropOff("engagement_to_conversion", m.engaged_sessions, m.conversions, FALSE)

\* max(drop_offs.items(), key = drop_off_rate)[0]: the first entry no other
\* entry's rate exceeds; None for no entry
FindBiggestDropOff(drop_offs) ==
    IF drop_offs = <<>> THEN "None"
    ELSE drop_offs[CHOOSE k \in DOMAIN drop_offs :
            /\ \A j \in DOMAIN drop_offs :
                  drop_offs[j].drop_off_rate.n * drop_offs[k].drop_off_rate.d
                      <= drop_offs[k].drop_off_rate.n * drop_offs[j].drop_off_rate.d
            /\ \A j \in 1..(k - 1) :
                  drop_offs[j].drop_off_rate.n * drop_offs[k].drop_off_rate.d
                      < drop_offs[k].drop_off_rate.n * drop_offs[j].drop_off_rate.d].stage

FunnelResult(m, drop_offs) ==
    [kind |-> "funnel", funnel_overview |-> m, drop_off_analysis |-> drop_offs,
     biggest_drop_off_stage |-> FindBiggestDropOff(drop_offs)]

\* JourneyAnalyzer(ga4_data, ad_data).analyze_funnel()
AnalyzeFunnel ==
    /\ called = "none"
    /\ called' = "analyze_funnel"
    /\ out' = IF dataset.ga4 = <<>> /\ dataset.ads = <<>> THEN ErrorResult
              ELSE FunnelResult(CalculateFunnelMetrics(dataset.ga4, dataset.ads, dsCols),
                                IdentifyDropOffs(
                                    CalculateFunnelMetrics(dataset.ga4, dataset.ads, dsCols)))
    /\ UNCHANGED <<dataset, dsCols, consVars, connVars, loadVars, mcpVars>>

\* _analyze_user_journey(ga4_data, ad_data)
AnalyzeUserJourney ==
    /\ called = "none"
    /\ called' = "_analyze_user_journey"
    /\ out' = IF dataset.ga4 = <<>> THEN ErrorResult
              ELSE FunnelResult(FunnelSteps(dataset.ga4, dataset.ads, dsCols),
                                RouteDropOffs(FunnelSteps(dataset.ga4, dataset.ads, dsCols)))
    /\ UNCHANGED <<dataset, dsCols, consVars, connVars, loadVars, mcpVars>>

-----------------------------------------------------------------------------
(* Platform exports, line by line: load_csv_from_bytes on the decoded text  *)
(* of an export, _parse_google_ads_csv and _parse_meta_csv (data_loader.py). *)
(* A line is what the parsers look at: the header keywords it contains,     *)
(* whether it starts with 'Total:', whether it is blank, and its fields.    *)

MaxLines == 5

\* 'Ad group report'; 'Ad group status,Ad group,Campaign,Impr.,Cost,Conversions';
\* 'Enabled,Ad group 1,Campaign 1,100,5.00,1'; 'Total: Account,,,100,5.00,1';
\* an empty line; 'Campaign,Clicks,Day'
ExportLines ==
    {[kind |-> "title",  words |-> {"Ad group"}, fields |-> 1],
     [kind |-> "header", words |-> {"Ad group", "Campaign", "Impr.", "Cost", "Conversions"},
      fields |-> 6],
     [kind |-> "data",   words |-> {"Ad group", "Campaign"}, fields |-> 6],
     [kind |-> "total",  words |-> {}, fields |-> 6],
     [kind |-> "blank",  words |-> {}, fields |-> 0],
     [kind |-> "short",  words |-> {"Campaign", "Clicks"}, fields |-> 3]}

\* The exports: the filename, the lines of the decoded text and its separator
Exports ==
    [name : {"google_ads.csv", "meta_ads.csv"}, lines : SeqsUpTo(ExportLines, MaxLines),
     sep : {",", "\t", "|"}]

StartsWithTotal(line) == line.kind = "total"
Blank(line) == line.kind = "blank"

\* content_str.strip().split('\n'): the blank lines at both ends are gone
RECURSIVE StripLines(_)
StripLines(lines) ==
    IF lines = <<>> THEN <<>>
    ELSE IF Blank(lines[1]) THEN StripLines(Tail(lines))
    ELSE IF Blank(lines[Len(lines)]) THEN StripLines(SubSeq(lines, 1, Len(lines) - 1))
    ELSE lines

\* lines 124-130 and 231-239: the index of the first line with at least 3 of
\* the indicators, 0 for None
HeaderLineIdx(lines, header_indicators) ==
    IF \E i \in DOMAIN lines : Cardinality(lines[i].words \cap header_indicators) >= 3
    THEN CHOOSE i \in DOMAIN lines :
            /\ Cardinality(lines[i].words \cap header_indicators) >= 3
            /\ \A j \in 1..(i - 1) : Cardinality(lines[j].words \cap header_indicators) < 3
    ELSE 0

\* pd.read_csv on lines whose first is the header, none of them with more
\* fields than the header: the first line gives the columns, every later line
\* that is not blank a row; a separator the text does not use gives one column
ReadLines(lines, text_sep, sep) ==
    [kind |-> "frame", header |-> lines[1],
     rows |-> SelectSeq(Tail(lines), LAMBDA l : ~Blank(l)),
     width |-> IF sep = text_sep THEN lines[1].fields ELSE 1]

\* _parse_google_ads_csv: without a header line it is pd.read_csv on the whole
\* text ("default"); with one, on the text from the header line on
ParseGoogleAdsLines(content, text_sep) ==
    LET lines == StripLines(content)
        header_indicators == {"Campaign", "Ad group", "Clicks", "Impr.", "Cost", "Conversions"}
        header_line_idx == HeaderLineIdx(lines, header_indicators) IN
    IF header_line_idx = 0 THEN [kind |-> "default"]
    ELSE ReadLines(SubSeq(lines, header_line_idx, Len(lines)), text_sep, ",")
            @@ [dropped |-> header_line_idx - 1]

\* _parse_meta_csv: None without a header line or without a line after it.
\* data_lines (lines 245-249) are the lines from the header on that neither
\* start with 'Total:' nor are blank; the separator (lines 259-277) is the
\* first of tab, comma and semicolon that gives more than 2 columns, else the
\* comma
ParseMetaLines(content, text_sep) ==
    LET lines == StripLines(content)
        header_indicators == {"Ad group", "Campaign", "Impr.", "Cost", "Conversions",
                              "Interactions"}
        header_line_idx == HeaderLineIdx(lines, header_indicators) IN
    IF header_line_idx = 0 THEN [kind |-> "None"]
    ELSE LET data_lines == SelectSeq(SubSeq(lines, header_line_idx, Len(lines)),
                                     LAMBDA l : ~StartsWithTotal(l) /\ ~Blank(l))
             sep == IF text_sep \in {"\t", ",", ";"} /\ data_lines[1].fields > 2
                    THEN text_sep ELSE "," IN
         IF Len(data_lines) < 2 THEN [kind |-> "None"]
         ELSE ReadLines(data_lines, text_sep, sep) @@ [dropped |-> header_line_idx - 1]

\* load_csv_from_bytes on the decoded text of an export.  Lines 29-47: the
\* Google Ads parser when 'google' is in the filename or one of
\* 'Campaign,Ad group', 'Clicks,Impr.,CTR', 'Cost,Conversions' is in the text,
\* which the header line has when the separator is the comma; the Meta parser
\* when not and 'meta' is in the filename.  Lines 49-51: a frame with rows is
\* returned; None or a frame without rows sends the loop to the next encoding.
LoadCsvExport(google) ==
    /\ ld # <<>> /\ ld.pc = "run"
    /\ google = (\/ file.name = "google_ads.csv"
                 \/ file.sep = "," /\ \E i \in DOMAIN file.lines : file.lines[i].kind = "header")
    /\ \E df \in {IF google THEN ParseGoogleAdsLines(file.lines, file.sep)
                  ELSE ParseMetaLines(file.lines, file.sep)} :
         ld' = [pc |-> "done",
                parser |-> IF google THEN "_parse_google_ads_csv" ELSE "_parse_meta_csv",
                result |-> IF df.kind = "None" \/ (df.kind = "frame" /\ df.rows = <<>>)
                           THEN [kind |-> "next_encoding"] ELSE df]
    /\ UNCHANGED <<file, consVars, connVars, anaVars, mcpVars>>

-----------------------------------------------------------------------------
(* Trends: _analyze_trends (routes/ad_insights.py).  A row is its date, a   *)
(* day number, with its ctr (hundredths) and its conversions; a daily value *)
(* is a number of ten-thousandths.                                          *)

MaxDays == 8

\* The kinds of a row: ctr 1.00 and 10 conversions, ctr 2.00 and none, ctr 0
\* and 10 conversions
TrendRow(date, kind) ==
    [date |-> date, ctr |-> <<100, 200, 0>>[kind], conversions |-> <<10, 0, 10>>[kind]]

TrendColumns == {"date", "ctr", "conversions"}

\* Lines 735-748: the direction from the daily values, in the order of the
\* dates; head(7) and tail(7) are all the days when there are at most 7, so
\* that both means are over the same number of days
TrendDirection(daily) ==
    IF Cardinality(DOMAIN daily) > 1
    THEN LET days == SortedValues([d \in DOMAIN daily |-> d], DOMAIN daily)
             k    == IF Len(days) < 7 THEN Len(days) ELSE 7
             earlier == SumOver(daily, {days[j] : j \in 1..k})
             recent  == SumOver(daily, {days[j] : j \in (Len(days) - k + 1)..Len(days)})
         IN  IF 10 * recent > 11 * earlier THEN "improving"
             ELSE IF 10 * recent < 9 * earlier THEN "declining"
             ELSE "stable"
    ELSE "insufficient_data"

\* _analyze_trends(df, metric): the error object without the metric or a date
\* column (lines 710-721) and on a frame without rows (lines 735-736).  The
\* agg dict of lines 725-731 has the metric first and 'conversions': 'sum'
\* after it: for the metric conversions the later entry replaces 'mean'.
analyze_trends(ds, cols, metric) ==
    IF metric \notin cols \/ "date" \notin cols \/ ds = <<>> THEN ErrorResult
    ELSE [kind |-> "result", metric |-> metric,
          data_points |-> Cardinality(GroupKeys(ds, "date")),
          trend_direction |->
             TrendDirection([d \in GroupKeys(ds, "date") |->
                IF metric = "conversions"
                THEN 10000 * SumOver(Column(ds, "conversions"), GroupRows(ds, "date", d))
                ELSE MeanOver(Ctr4(ds), GroupRows(ds, "date", d))])]

AnalyzeTrends(metric) ==
    /\ called = "none"
    /\ called' = "_analyze_trends"
    /\ out' = analyze_trends(dataset, dsCols, metric) @@ [metric |-> metric]
    /\ UNCHANGED <<dataset, dsCols, consVars, connVars, loadVars, mcpVars>>

-----------------------------------------------------------------------------
(* Google OAuth tokens (routes/google_oauth.py over database.py).  The      *)
(* table user_credentials has one row a (user, data source); the OAuth      *)
(* tokens of a user are the row of the data source 'google'.  A row of the  *)
(* store is "none" when the table has no such row.                          *)

OAuthSources == {"google", "google_ads", "ga4", "meta_ads"}

\* CredentialStorage.save_credentials: INSERT OR REPLACE of one row
save_credentials(st, user_id, data_source, creds) ==
    [st EXCEPT ![user_id][data_source] = creds]

\* CredentialStorage.store_credentials: INSERT OR REPLACE of one row for each
\* item of the dict; credentials[s] = "none" stands for a dict without the key
\* s, and no statement touches the row of such a key
store_credentials(st, user_id, credentials) ==
    [st EXCEPT ![user_id] = [s \in DOMAIN @ |->
        IF credentials[s] # "none" THEN credentials[s] ELSE @[s]]]

\* get_user_tokens(user_id): {user_id: google_creds} when the user has a row
\* 'google' with a token, else {}
get_user_tokens(st, user_id) ==
    IF st[user_id]["google"] # "none"
    THEN [u \in {user_id} |-> st[user_id]["google"]]
    ELSE <<>>

\* store_user_tokens: the dict of the user's rows with 'google' set, stored
store_user_tokens(st, user_id, token_data) ==
    store_credentials(st, user_id, [st[user_id] EXCEPT !["google"] = token_data])

\* remove_user_tokens: the dict of the user's rows without 'google', stored,
\* when the user has a row 'google'
remove_user_tokens(st, user_id) ==
    IF st[user_id]["google"] # "none"
    THEN store_credentials(st, user_id, [st[user_id] EXCEPT !["google"] = "none"])
    ELSE st

\* POST /google-oauth/exchange-token for the Google account user_id
ExchangeToken(user_id, meta) ==
    /\ store' = store_user_tokens(
                    IF meta
                    THEN save_credentials(save_credentials(save_credentials(store,
                             user_id, "google_ads", "valid"), user_id, "ga4", "valid"),
                             user_id, "meta_ads", "valid")
                    ELSE save_credentials(save_credentials(store,
                             user_id, "google_ads", "valid"), user_id, "ga4", "valid"),
                    user_id, "token")
    /\ called' = "exchange_token"
    /\ out' = [kind |-> "exchanged", user |-> user_id, success |-> TRUE]
    /\ UNCHANGED <<connectors, fetches, dataset, dsCols, consVars, loadVars, mcpVars>>

\* get_user_credentials(user_id): 401 without a token entry; an expired token
\* is refreshed and stored again
GetUserCredentials(user_id, expired) ==
    /\ called' = "get_user_credentials"
    /\ IF user_id \notin DOMAIN get_user_tokens(store, user_id)
       THEN /\ out' = [kind |-> "HTTPException", user |-> user_id, status_code |-> 401,
                       detail |-> "User not authenticated"]
            /\ store' = store
       ELSE /\ out' = [kind |-> "credentials", user |-> user_id,
                       token |-> IF expired THEN "refreshed" ELSE store[user_id]["google"]]
            /\ store' = IF expired THEN store_user_tokens(store, user_id, "refreshed")
                        ELSE store
    /\ UNCHANGED <<connectors, fetches, dataset, dsCols, consVars, loadVars, mcpVars>>

\* POST /google-oauth/logout
Logout(user_id) ==
    /\ store' = remove_user_tokens(store, user_id)
    /\ called' = "logout"
    /\ out' = [kind |-> "logout", user |-> user_id, success |-> TRUE]
    /\ UNCHANGED <<connectors, fetches, dataset, dsCols, consVars, loadVars, mcpVars>>

-----------------------------------------------------------------------------
(* MCP client (backend/services/mcp_client_fixed.py).  get_mcp_client_fixed *)
(* hands every caller the one MCPClientFixed; a call_tool coroutine runs    *)
(* until its next await of the network, where another one may run.          *)

NumCallers == 2

Callers == 1..NumCallers

\* self._session_id = None
NoSession == 0

\* MCPClientFixed.__init__
NewClient == [_initialized |-> FALSE, _session_id |-> NoSession, _request_id |-> 0]

IdleCaller == [pc |-> "idle", id |-> 0, body |-> "none", ret |-> "none"]

McpIdle ==
    /\ client = NewClient
    /\ callers = [t \in Callers |-> IdleCaller]
    /\ wire = <<>>

\* A request posted to /llm/mcp, with its mcp-session-id header
Posted(t, method, session) ==
    [kind |-> "request", method |-> method, task |-> t, session |-> session,
     status |-> 0, protocolVersion |-> FALSE]

\* call_tool after _initialize_mcp_session has returned (lines 240-274), on
\* the client cl: None without a request if the client is not initialized,
\* else the tools/call request with the client's session id is posted
SendToolsCall(t, cl, w) ==
    IF ~cl._initialized
    THEN /\ callers' = [callers EXCEPT ![t].pc = "done", ![t].ret = "None"]
         /\ client' = cl
         /\ wire' = w
    ELSE /\ callers' = [callers EXCEPT ![t].pc = "tools/call"]
         /\ client' = [cl EXCEPT !._request_id = @ + 1]
         /\ wire' = Append(w, Posted(t, "tools/call", cl._session_id))

\* _send_initialized_notification up to its post (lines 207-219), reached from
\* _initialize_mcp_session
SendInitializedNotification(t) ==
    /\ callers' = [callers EXCEPT ![t].pc = "notifications/initialized"]
    /\ wire' = Append(wire, Posted(t, "notifications/initialized", client._session_id))
    /\ client' = client

\* call_tool up to its first await of the network: _initialize_mcp_session
\* returns at once on an initialized client, else it posts initialize
CallTool(t) ==
    /\ callers[t].pc = "idle"
    /\ IF client._initialized
       THEN SendToolsCall(t, client, wire)
       ELSE /\ client' = [client EXCEPT !._request_id = @ + 1]
            /\ callers' = [callers EXCEPT ![t].pc = "initialize",
                                          ![t].id = client._request_id + 1]
            /\ wire' = Append(wire, Posted(t, "initialize", NoSession))
    /\ UNCHANGED <<consVars, connVars, anaVars, loadVars>>

\* The answer to initialize arrives (lines 171-201): its mcp-session-id header,
\* if any, is kept whatever the status; the body is read on a 200 only.  The
\* server names a session after the id of the request that opened it.
InitializeAnswered(t, status, header, protocolVersion) ==
    /\ callers[t].pc = "initialize"
    /\ \E session \in {IF header THEN callers[t].id ELSE NoSession} :
       \E cl \in {IF header THEN [client EXCEPT !._session_id = session] ELSE client} :
       \E w \in {Append(wire, [kind |-> "response", method |-> "initialize", task |-> t,
                               session |-> session, status |-> status,
                               protocolVersion |-> status = 200 /\ protocolVersion])} :
          IF status = 200
          THEN /\ callers' = [callers EXCEPT ![t].pc = "text",
                     ![t].body = IF protocolVersion THEN "protocolVersion" ELSE "other"]
               /\ client' = cl
               /\ wire' = w
          ELSE SendToolsCall(t, cl, w)
    /\ UNCHANGED <<consVars, connVars, anaVars, loadVars>>

\* The post of initialize raises (lines 200-201): caught, and call_tool goes on
InitializeRaised(t) ==
    /\ callers[t].pc \in {"initialize", "text"}
    /\ SendToolsCall(t, client, wire)
    /\ UNCHANGED <<consVars, connVars, anaVars, loadVars>>

\* The body of the 200 answer has arrived (lines 180-198): with a
\* protocolVersion, or else with any session id on the client, the
\* notification is sent
InitializeText(t) ==
    /\ callers[t].pc = "text"
    /\ IF callers[t].body = "protocolVersion" \/ client._session_id # NoSession
       THEN SendInitializedNotification(t)
       ELSE SendToolsCall(t, client, wire)
    /\ UNCHANGED <<consVars, connVars, anaVars, loadVars>>

\* The post of the notification is over (lines 219-231): whatever the status,
\* and also when it raised, the client is marked initialized; call_tool goes on
InitializedNotificationDone(t) ==
    /\ callers[t].pc = "notifications/initialized"
    /\ SendToolsCall(t, [client EXCEPT !._initialized = TRUE], wire)
    /\ UNCHANGED <<consVars, connVars, anaVars, loadVars>>

\* The answer to tools/call (lines 276-288): the parsed result on a 200, else
\* None
ToolsCallAnswered(t, status) ==
    /\ callers[t].pc = "tools/call"
    /\ callers' = [callers EXCEPT ![t].pc = "done",
                                  ![t].ret = IF status = 200 THEN "result" ELSE "None"]
    /\ UNCHANGED <<client, wire, consVars, connVars, anaVars, loadVars>>

-----------------------------------------------------------------------------
(* Specifications *)

LoadIdle == file = <<>> /\ ld = <<>>

\* One consolidator under any sequence of add calls
ConsolidatorInit == OneConsInit /\ ConnIdle /\ AnaIdle /\ LoadIdle /\ McpIdle
ConsolidatorNext ==
    \E platform \in Platforms : \E df \in OptionalFrames(platform) : AddCall(platform, df)
SpecConsolidator == ConsolidatorInit /\ [][ConsolidatorNext]_vars

\* Concurrent upload requests
UploadInit == ConsIdle /\ ConnIdle /\ AnaIdle /\ LoadIdle /\ McpIdle
UploadNext ==
    \E r \in Requests : RejectNoFile(r) \/ Construct(r) \/ Process(r) \/ Generate(r)
SpecUpload == UploadInit /\ [][UploadNext]_vars

\* Ad requests of several users against the one integrator
TenantInit ==
    /\ store \in [Users -> [DataSources -> Credentials]]
    /\ connectors = EmptyRegistry
    /\ fetches = [f \in Fetches |-> IdleFetch]
    /\ ConsIdle /\ AnaIdle /\ LoadIdle /\ McpIdle
TenantNext ==
    \/ \E f \in Fetches, u \in Users, names \in (SUBSET DataSources) \ {{}} : AdRequest(f, u, names)
    \/ \E f \in Fetches, returned \in SUBSET DataSources : FetchDone(f, returned)
SpecTenant == TenantInit /\ [][TenantNext]_vars

\* The analysis entry points on any dataset
AnalysisInit == AnaInit /\ ConsIdle /\ ConnIdle /\ LoadIdle /\ McpIdle
AnalysisNext ==
    \/ \E budget \in Budgets : CalculateBudgetReallocation(budget)
    \/ \E min_spend \in MinSpends : GenerateRecommendations(min_spend)
    \/ \E min_spend \in MinSpends : RouteGenerateRecommendations(min_spend)
    \/ AnalyzePerformance
    \/ GenerateActionPlan
    \/ GenerateInsights
SpecAnalysis == AnalysisInit /\ [][AnalysisNext]_vars

\* One call of a CSV loader on any file; chardet has no part in
\* load_csv_from_bytes, and the filename none in _detect_encoding_and_read_csv
LoaderInit ==
    /\ file \in Files
    /\ \E fn \in {"load_csv_from_bytes", "_detect_encoding_and_read_csv"} :
         /\ IF fn = "load_csv_from_bytes" THEN file.detected = NoEncoding
                                          ELSE file.name = "report.csv"
         /\ ld = [fn |-> fn, pc |-> "run", i |-> 1, tried |-> <<>>, closed |-> FALSE,
                  result |-> "pending"]
    /\ ConsIdle /\ ConnIdle /\ AnaIdle /\ McpIdle
LoaderNext ==
    \/ LoadCsvFromBytes
    \/ LoadCsvNone
    \/ \E finalised \in BOOLEAN : DetectEncodingAndReadCsv(finalised)
    \/ ReadCsvRaise
SpecLoader == LoaderInit /\ [][LoaderNext]_vars

\* The two funnel analyses on any pair of a GA4 frame and an ad frame
FunnelInit ==
    /\ dataset \in [ga4 : SeqsUpTo(Ga4Rows, MaxFunnelRows), ads : SeqsUpTo(AdRows, MaxFunnelRows)]
    /\ dsCols \in SUBSET {"engagementRate", "conversions"}
    /\ called = "none"
    /\ out = [kind |-> "none"]
    /\ ConsIdle /\ ConnIdle /\ LoadIdle /\ McpIdle
FunnelNext == AnalyzeFunnel \/ AnalyzeUserJourney
SpecFunnel == FunnelInit /\ [][FunnelNext]_vars

\* The loader on the decoded text of any export
ExportInit ==
    /\ file \in Exports
    /\ ld = [pc |-> "run", parser |-> "none", result |-> [kind |-> "pending"]]
    /\ ConsIdle /\ ConnIdle /\ AnaIdle /\ McpIdle
ExportNext == \E google \in BOOLEAN : LoadCsvExport(google)
SpecExport == ExportInit /\ [][ExportNext]_vars

\* Concurrent fetch_specific_data calls on the one integrator, which holds the
\* connectors of user 1; no connector is added or removed
FetchInit ==
    /\ store \in [Users -> [DataSources -> Credentials]]
    /\ connectors = load_user_connectors(EmptyRegistry, store, 1)
    /\ fetches = [f \in Fetches |-> IdleFetch]
    /\ ConsIdle /\ AnaIdle /\ LoadIdle /\ McpIdle
FetchNext ==
    \/ \E f \in Fetches, names \in (SUBSET DataSources) \ {{}} : FetchSpecificData(f, names)
    \/ \E f \in Fetches, returned \in SUBSET DataSources : FetchDone(f, returned)
SpecFetch == FetchInit /\ [][FetchNext]_vars

\* The credential manager under any sequence of loads and removals
CredentialInit ==
    /\ store \in [Users -> [DataSources -> Credentials]]
    /\ connectors = EmptyRegistry
    /\ fetches = [f \in Fetches |-> IdleFetch]
    /\ ConsIdle /\ AnaIdle /\ LoadIdle /\ McpIdle
CredentialNext ==
    \/ \E u \in Users : LoadUserConnectors(u)
    \/ \E u \in Users, data_source \in DataSources : RemoveUserConnector(u, data_source)
SpecCredential == CredentialInit /\ [][CredentialNext]_vars

\* The two recommendation generators on datasets of up to MaxCampaigns rows,
\* every row a campaign of its own
ManyCampaignsInit ==
    /\ \E n \in 0..MaxCampaigns : \E kinds \in [1..n -> 1..3] :
          dataset = [i \in 1..n |-> ManyCampaignRow(ManyCampaignNames[i], kinds[i])]
    /\ dsCols = UnifiedColumns
    /\ called = "none"
    /\ out = [kind |-> "none"]
    /\ ConsIdle /\ ConnIdle /\ LoadIdle /\ McpIdle
ManyCampaignsNext ==
    \/ \E min_spend \in MinSpends : GenerateRecommendations(min_spend)
    \/ \E min_spend \in MinSpends : RouteGenerateRecommendations(min_spend)
SpecManyCampaigns == ManyCampaignsInit /\ [][ManyCampaignsNext]_vars

\* Trend analysis on datasets of up to MaxDays dates, one row a date and
\* possibly a second row on the last date, with or without a date column
TrendInit ==
    /\ \E n \in 0..MaxDays : \E kinds \in [1..n -> 1..3] : \E extra \in 0..3 :
          dataset = [i \in 1..n |-> TrendRow(i, kinds[i])]
                      \o (IF extra = 0 \/ n = 0 THEN <<>> ELSE <<TrendRow(n, extra)>>)
    /\ dsCols \in {TrendColumns, TrendColumns \ {"date"}}
    /\ called = "none"
    /\ out = [kind |-> "none"]
    /\ ConsIdle /\ ConnIdle /\ LoadIdle /\ McpIdle
TrendNext == \E metric \in {"ctr", "conversions", "cpm"} : AnalyzeTrends(metric)
SpecTrend == TrendInit /\ [][TrendNext]_vars

\* Token exchanges, logouts and credential reads of the users, from any
\* content of the table
OAuthInit ==
    /\ store \in [Users -> [OAuthSources -> {"none", "valid"}]]
    /\ \A u \in Users : store[u]["google"] = "none"
    /\ connectors = EmptyRegistry
    /\ fetches = [f \in Fetches |-> IdleFetch]
    /\ ConsIdle /\ AnaIdle /\ LoadIdle /\ McpIdle
OAuthNext ==
    \/ \E u \in Users, meta \in BOOLEAN : ExchangeToken(u, meta)
    \/ \E u \in Users, expired \in BOOLEAN : GetUserCredentials(u, expired)
    \/ \E u \in Users : Logout(u)
SpecOAuth == OAuthInit /\ [][OAuthNext]_vars

\* Concurrent call_tool invocations on the shared client, against a server
\* that answers as it likes
McpInit == McpIdle /\ ConsIdle /\ ConnIdle /\ AnaIdle /\ LoadIdle
McpNext ==
    \/ \E t \in Callers : CallTool(t)
    \/ \E t \in Callers, status \in {200, 500}, header \in BOOLEAN, protocolVersion \in BOOLEAN :
          InitializeAnswered(t, status, header, protocolVersion)
    \/ \E t \in Callers : InitializeRaised(t)
    \/ \E t \in Callers : InitializeText(t)
    \/ \E t \in Callers : InitializedNotificationDone(t)
    \/ \E t \in Callers, status \in {200, 500} : ToolsCallAnswered(t, status)
SpecMcp == McpInit /\ [][McpNext]_vars

-----------------------------------------------------------------------------
(* Properties *)

\* Rows of the admitted batches before batch k
RECURSIVE RowsBefore(_, _)
RowsBefore(log, k) ==
    IF k <= 1 THEN 0 ELSE RowsBefore(log, k - 1) + Len(log[k - 1].batch.rows)

AllColumns(log) == UNION {log[k].batch.cols : k \in DOMAIN log}

\* Frame data holds exactly the batches of log, in the order of log, each row
\* as it was admitted (columns its batch lacks are NaN) and tagged with the
\* platform of the call that admitted it
HoldsExactly(data, log) ==
    /\ Len(data.rows) = RowsBefore(log, Len(log) + 1)
    /\ data.cols = AllColumns(log)
    /\ \A k \in DOMAIN log : \A i \in DOMAIN log[k].batch.rows :
         LET row == data.rows[RowsBefore(log, k) + i]
         IN  /\ \A c \in log[k].batch.cols : row[c] = log[k].batch.rows[i][c]
             /\ \A c \in data.cols \ log[k].batch.cols : row[c] = NaNCell
             /\ row["source"] = Txt(log[k].tag)

\* C1: whatever the interleaving of upload requests, every request works on a
\* consolidator object of its own, and the dataset its insights are generated
\* from holds the batches this request added and no record of another request.
C1_RequestIsolation ==
    /\ \A r1, r2 \in Requests :
         (r1 # r2 /\ reqs[r1].cons # 0 /\ reqs[r2].cons # 0) => reqs[r1].cons # reqs[r2].cons
    /\ \A r \in Requests :
         reqs[r].status = 200 => HoldsExactly(reqs[r].seen, reqs[r].added)

\* Two requests that overlapped (the second was constructed before the first
\* generated) both answered, from different uploads
C1_Witness ==
    \E r1, r2 \in Requests :
        /\ r1 # r2
        /\ reqs[r1].status = 200 /\ reqs[r2].status = 200
        /\ reqs[r1].upload # reqs[r2].upload
        /\ reqs[r1].seen # reqs[r2].seen
        /\ Len(reqs[r1].seen.rows) > 0 /\ Len(reqs[r2].seen.rows) > 0

\* C3: after any sequence of add calls on one consolidator the dataset is the
\* admitted batches in call order: no admitted row removed, moved or changed,
\* each row tagged with the source of its call, and the row count the sum of
\* the admitted batches' row counts.
C3_ConcatenationInOrder == HoldsExactly(heap[1], admitted[1])

\* Two batches of different platforms and shapes admitted one after the other
C3_Witness ==
    /\ Len(admitted[1]) = 2
    /\ admitted[1][1].tag # admitted[1][2].tag
    /\ admitted[1][1].batch.cols # admitted[1][2].batch.cols
    /\ Len(heap[1].rows) >= 3

\* C2: a request made for a user fetches only through connectors built from
\* that user's own stored credentials, whatever other users requested before
\* or meanwhile.
C2_OwnConnectorsOnly ==
    \A f \in Fetches : \A task \in fetches[f].used : task[2] = fetches[f].user

\* C4: every analysis entry point, on any dataset, zero rows included,
\* returns a populated result or a structured error object; none raises.
C4_NeverRaises ==
    called # "none" => out.kind \in {"result", "error"}

\* C5: no numeric field of an analysis output is NaN or infinite, whatever
\* zeros the rows hold.
C5_NoNaNOrInfinity ==
    out.kind = "result" => \A x \in out.nums : IsFin(x)

\* C6: when the campaigns' efficiency scores sum to zero, budget reallocation
\* computes no optimal percentage or amount as NaN or infinite and lists no
\* campaign for increase or decrease.
C6_ZeroEfficiencyMaintains ==
    (/\ called = "calculate_budget_reallocation"
     /\ out.kind = "result"
     /\ out.total_efficiency = 0)
    => /\ \A c \in DOMAIN out.plan : /\ IsFin(out.plan[c].optimal_budget_pct)
                                     /\ IsFin(out.plan[c].optimal_budget_amount)
       /\ out.increase_budget = {}
       /\ out.decrease_budget = {}

\* Sum of the optimal amounts of a plan, in cents
TotalOptimalAmount(plan) ==
    SumOver([c \in DOMAIN plan |-> plan[c].optimal_budget_amount.v], DOMAIN plan)

\* C7: whenever the efficiency scores sum to more than zero, the optimal
\* amounts of all campaigns sum to the total budget, to within one cent per
\* campaign.
C7_BudgetConserved ==
    (/\ called = "calculate_budget_reallocation"
     /\ out.kind = "result"
     /\ out.total_efficiency > 0)
    => Abs(TotalOptimalAmount(out.plan) - out.total_budget * 100)
           <= Cardinality(DOMAIN out.plan)

\* C8: in every grouped view the roas of a group is the ratio of the group's
\* sums, sum(conversions) / (sum(spend) + 0.001), never a mean of row ratios.
C8_RatiosFromSums ==
    (/\ called \in {"calculate_budget_reallocation", "generate_recommendations",
                    "_generate_recommendations", "analyze_performance"}
     /\ out.kind = "result")
    => \A g \in out.groups :
           g.roas = RoasOf(SumOver(Column(dataset, "conversions"), g.rows),
                               SumOver(Column(dataset, "spend"), g.rows))

\* C9: a recommendation list is never empty: it is the single sentinel entry
\* exactly when no rule fired, and otherwise one entry per rule that fired
\* and no sentinel.
C9_NeverEmptySentinel ==
    (/\ called \in {"generate_recommendations", "_generate_recommendations", "generate_insights"}
     /\ out.kind = "result")
    => /\ Len(out.recs) >= 1
       /\ (out.fired = {}) <=> (out.recs = <<"no_specific_recommendations">>)
       /\ out.fired # {} => /\ Len(out.recs) = Cardinality(out.fired)
                            /\ {out.recs[i] : i \in DOMAIN out.recs} = out.fired


\* The encodings a loader goes through on the file
EncodingsOf(l, f) ==
    IF l.fn = "load_csv_from_bytes" THEN LoaderEncodings ELSE EncodingsToTry(f.detected)

\* The text of the file under the encoding gives a frame with rows under one of
\* the loader's parsing strategies
YieldsFrame(l, f, encoding) ==
    /\ Decoded(f, encoding) # "undecodable"
    /\ IF l.fn = "load_csv_from_bytes"
       THEN Parse(f.name, Decoded(f, encoding)) \in {"frame", "narrow"}
       ELSE ReadCsv(Decoded(f, encoding), 1) \in {"frame", "narrow"}

\* The place of a codec in the stated order: utf-8, utf-8-sig, utf-16 (-le, -be),
\* latin-1, cp1252 / windows-1252
StatedPlace(encoding) ==
    CHOOSE p \in 1..Len(LoaderEncodings) : LoaderEncodings[p] = Codec(encoding)

\* The passes that follow the one with the detected encoding
AfterDetected(l, f) ==
    {k \in DOMAIN l.tried : ~(k = 1 /\ Lower(l.tried[1].encoding) = Lower(f.detected))}

TriedInStatedOrder ==
    \A j, k \in AfterDetected(ld, file) :
        j < k => StatedPlace(ld.tried[j].encoding) < StatedPlace(ld.tried[k].encoding)

\* The loader returned None or raised
LoadFailed == ld.result \in {"None", "Exception"}

FrameWheneverOneYields ==
    (\E k \in DOMAIN EncodingsOf(ld, file) : YieldsFrame(ld, file, EncodingsOf(ld, file)[k]))
        => ~LoadFailed

NoFailureStopsTheRest ==
    /\ LoadFailed => Len(ld.tried) = Len(EncodingsOf(ld, file))
    /\ \A k \in DOMAIN ld.tried : ld.tried[k].outcome # "ValueError"

\* C10: loading a file fails only if every encoding x strategy combination
\* fails: the encodings are tried in the stated order, no failure under one
\* encoding keeps the remaining ones from being tried on the file, and if any
\* combination yields a non-empty frame the loader returns a frame.
C10_FailsOnlyIfAllFail ==
    (ld # <<>> /\ ld.pc = "done") =>
        /\ TriedInStatedOrder
        /\ NoFailureStopsTheRest
        /\ FrameWheneverOneYields


KnownTags == {TagOf(platform) : platform \in Platforms}

\* The datasets built from uploads: the source of every row of every
\* consolidator's .data
UploadedSourcesKnown ==
    \A o \in DOMAIN heap : \A i \in DOMAIN heap[o].rows :
        /\ "source" \in heap[o].cols
        /\ heap[o].rows[i]["source"] \in {Txt(tag) : tag \in KnownTags}

\* C11: in every dataset handed to the analysis components, built from uploads
\* through the standardizer or from the batches the API connectors fetched, the
\* source of every record is one of the tags meta, google_ads, ga4.
C11_SourceIsKnownTag ==
    /\ UploadedSourcesKnown
    /\ \A f \in Fetches : fetches[f].sources \subseteq KnownTags


\* The canonical schema's numeric and string fields
CanonicalNumericFields ==
    {"impressions", "clicks", "spend", "conversions", "reach", "sessions", "users", "pageviews",
     "ctr", "cpc", "cpm", "engagement_rate", "session_duration"}
CanonicalStringFields == {"source", "campaign_name", "adset_name", "ad_name"}

\* The frames of the unified dataset: every batch admitted, and every
\* consolidator's .data
AdmittedFrames ==
    {heap[o] : o \in DOMAIN heap}
        \cup UNION {{admitted[o][k].batch : k \in DOMAIN admitted[o]} : o \in DOMAIN admitted}

\* C12: every numeric canonical field of every record admitted to the unified
\* dataset is a finite number; a missing, non-numeric, NaN or infinite input
\* value is stored as 0.0.
C12_NumericFieldsFinite ==
    \A f \in AdmittedFrames : \A i \in DOMAIN f.rows :
        \A c \in CanonicalNumericFields \cap f.cols : f.rows[i][c].t = "num"


\* The mapping list of the platform that writes the tag
MappingsOfTag(tag) ==
    CASE tag = TagOf("ga4")  -> GA4Mappings
      [] tag = TagOf("meta") -> MetaMappings
      [] OTHER               -> GoogleAdsMappings

\* The canonical fields the input frame has no column for
AbsentFields(tag, input) ==
    (CanonicalNumericFields \cup CanonicalStringFields)
        \ ({Renamed(MappingsOfTag(tag), c) : c \in input.cols} \cup {"source"})

\* C13: every record admitted to the unified dataset has every canonical field;
\* a canonical numeric field absent from the input is 0.0 and a canonical string
\* field absent from the input is "Unknown".
C13_EveryCanonicalField ==
    \A o \in DOMAIN admitted : \A k \in DOMAIN admitted[o] :
        \A i \in DOMAIN admitted[o][k].batch.rows :
            /\ (CanonicalNumericFields \cup CanonicalStringFields) \subseteq admitted[o][k].batch.cols
            /\ \A c \in AbsentFields(admitted[o][k].tag, admitted[o][k].input) :
                   admitted[o][k].batch.rows[i][c] =
                      IF c \in CanonicalNumericFields THEN Num(0)
                      ELSE Txt(<<"U", "n", "k", "n", "o", "w", "n">>)


MappingsOf(platform) ==
    CASE platform = "ga4"    -> GA4Mappings
      [] platform = "meta"   -> MetaMappings
      [] platform = "google" -> GoogleAdsMappings

\* The place of a raw column in the platform's mapping list
Priority(mappings, c) == CHOOSE i \in DOMAIN mappings : mappings[i][1] = c

\* The raw columns of f that a column earlier in the mapping list beats for the
\* same canonical field
LaterMatches(mappings, f) ==
    {c \in f.cols :
        /\ \E i \in DOMAIN mappings : mappings[i][1] = c
        /\ \E d \in f.cols :
              /\ \E i \in DOMAIN mappings : mappings[i][1] = d
              /\ Renamed(mappings, d) = Renamed(mappings, c)
              /\ Priority(mappings, d) < Priority(mappings, c)}

WithoutColumns(f, drop) ==
    [cols |-> f.cols \ drop, rows |-> [i \in DOMAIN f.rows |-> [c \in f.cols \ drop |-> f.rows[i][c]]]]

\* The uploads of request r that hold a frame with a mapping conflict
Conflicting(r) ==
    {platform \in Platforms :
        /\ reqs[r].upload[platform].present
        /\ ~reqs[r].upload[platform].df.none
        /\ ~IsEmpty(reqs[r].upload[platform].df.f)
        /\ LaterMatches(MappingsOf(platform), reqs[r].upload[platform].df.f) # {}}

\* C14: when several raw columns of an input frame map to one canonical field,
\* the standardized output has one column for the field, taken from the raw
\* column first in the platform's mapping list; the later matches are ignored,
\* so the batch is the one the frame without them gives.
C14_FirstMatchWins ==
    \A r \in Requests : reqs[r].pc \in {"processed", "done"} =>
        \A platform \in Conflicting(r) :
            \E k \in DOMAIN reqs[r].added :
                /\ reqs[r].added[k].tag = TagOf(platform)
                /\ reqs[r].added[k].batch =
                      AddFor(platform, EmptyFrame,
                             SomeFrame(WithoutColumns(reqs[r].upload[platform].df.f,
                                 LaterMatches(MappingsOf(platform),
                                              reqs[r].upload[platform].df.f)))).batch


\* The columns a standardized frame may hold: the canonical schema and what
\* the platform's mapping list renames to
SchemaColumns(tag) ==
    CanonicalNumericFields \cup CanonicalStringFields \cup {"date"}
        \cup {MappingsOfTag(tag)[i][2] : i \in DOMAIN MappingsOfTag(tag)}

\* C15: standardization renames only the mapping keys present in the input and
\* drops every input column that has no mapping; the standardized frame holds
\* no column outside the canonical schema.
C15_UnmappedColumnsDropped ==
    \A o \in DOMAIN admitted : \A k \in DOMAIN admitted[o] :
        admitted[o][k].batch.cols \subseteq SchemaColumns(admitted[o][k].tag)


\* The platform standardizer that writes the tag
StandardizerOf(tag, f) ==
    CASE tag = TagOf("ga4")  -> standardize_ga4_data(f)
      [] tag = TagOf("meta") -> standardize_meta_data(f)
      [] OTHER               -> standardize_google_ads_data(f)

\* S(S(x)) = S(x) for the standardizer S of the tag
Idempotent(tag, x, sx) ==
    /\ ~sx.raised
    /\ StandardizerOf(tag, sx.frame) = sx

\* C16: standardizing an already-canonical frame is a no-op: for every frame x
\* a platform standardizer S was applied to, S(S(x)) equals S(x), with the same
\* columns, the same rows and the same values.
C16_StandardizeIdempotent ==
    \A o \in DOMAIN admitted : \A k \in DOMAIN admitted[o] :
        /\ Idempotent(admitted[o][k].tag, admitted[o][k].input,
                      StandardizerOf(admitted[o][k].tag, admitted[o][k].input))
        /\ admitted[o][k].batch =
              ensure_required_columns(
                  StandardizerOf(admitted[o][k].tag, admitted[o][k].input).frame)

\* A batch was admitted from a frame with a renamed column, a text to clean and
\* a gap
C16_Witness ==
    \E k \in DOMAIN admitted[1] :
        /\ admitted[1][k].input.cols # admitted[1][k].batch.cols
        /\ \E i \in DOMAIN admitted[1][k].input.rows : \E c \in admitted[1][k].input.cols :
              /\ admitted[1][k].input.rows[i][c].t = "str"
              /\ Renamed(MappingsOfTag(admitted[1][k].tag), c) \in admitted[1][k].batch.cols
              /\ admitted[1][k].batch.rows[i][Renamed(MappingsOfTag(admitted[1][k].tag), c)].t = "num"


\* The metrics both _find_top_performers and _find_bottom_performers track, as
\* columns of the analyzer's data
TrackedMetrics(ds) == {Ctr4(ds), PreparedRoas(ds), PreparedConversionRate(ds)}

\* analyze_performance has selected top and bottom performers on the dataset
BandsSelected ==
    /\ called = "analyze_performance"
    /\ out.kind = "result"
    /\ SignificantSpend(dataset, 50) # {}

StagePairs(m) ==
    << [stage |-> "ads_to_website", up |-> m.ad_clicks, down |-> m.website_sessions],
       [stage |-> "website_to_engagement", up |-> m.website_sessions, down |-> m.engaged_sessions],
       [stage |-> "engagement_to_conversion", up |-> m.engaged_sessions, down |-> m.conversions] >>

\* The entry reports (upstream - downstream) / upstream of the pair, as a
\* percentage, to 2 decimals
ReportsRate(entry, pair) ==
    /\ entry.stage = pair.stage
    /\ 200 * Abs(entry.drop_off_rate.n * pair.up
                   - (pair.up - pair.down) * 100 * entry.drop_off_rate.d)
          <= entry.drop_off_rate.d * pair.up

\* The first pair, in the fixed order, whose rate no pair's rate exceeds
BiggestOf(pairs) ==
    IF \A p \in DOMAIN pairs : pairs[p].up = 0 THEN "None"
    ELSE pairs[CHOOSE k \in DOMAIN pairs :
            /\ pairs[k].up > 0
            /\ \A j \in DOMAIN pairs : pairs[j].up > 0 =>
                  (pairs[j].up - pairs[j].down) * pairs[k].up
                      <= (pairs[k].up - pairs[k].down) * pairs[j].up
            /\ \A j \in 1..(k - 1) : pairs[j].up > 0 =>
                  (pairs[j].up - pairs[j].down) * pairs[k].up
                      < (pairs[k].up - pairs[k].down) * pairs[j].up].stage

FunnelReported(res, pairs) ==
    /\ \A p \in DOMAIN pairs : pairs[p].up > 0 =>
          \E k \in DOMAIN res.drop_off_analysis : ReportsRate(res.drop_off_analysis[k], pairs[p])
    /\ res.biggest_drop_off_stage = BiggestOf(pairs)

\* C18: the funnel analysis reports the drop-off rate (upstream - downstream) /
\* upstream of each of the three adjacent stage pairs, and biggest_drop_off_stage
\* is the pair with the maximum rate, the first such pair in the fixed order;
\* counts 1000, 800, 200, 20 give 20%, 75%, 90% and "engagement_to_conversion".
C18_FunnelDropOffs ==
    out.kind = "funnel" =>
        /\ FunnelReported(out, StagePairs(out.funnel_overview))
        /\ out.funnel_overview = [ad_clicks |-> 1000, website_sessions |-> 800,
                                  engaged_sessions |-> 200, conversions |-> 20]
              => out.biggest_drop_off_stage = "engagement_to_conversion"

\* An export of a platform: title lines, then the header line, then data lines
\* and, last, a Total: summary line
TitledExport(lines) ==
    \E h \in 2..(Len(lines) - 2) :
        /\ \A i \in 1..(h - 1) : lines[i].kind = "title"
        /\ lines[h].kind = "header"
        /\ \A i \in (h + 1)..(Len(lines) - 1) : lines[i].kind = "data"
        /\ lines[Len(lines)].kind = "total"

\* C19: of a platform export whose header line comes after title lines and is
\* followed by data and a closing Total: line, the loader returns a frame whose
\* columns are those of the first line with at least 3 header keywords, with
\* every line before it dropped and no Total: line among the rows
C19_HeaderFoundAndTotalTrimmed ==
    (ld.pc = "done" /\ TitledExport(file.lines)) =>
        /\ ld.result.kind = "frame"
        /\ ld.result.header.kind = "header"
        /\ ld.result.dropped = HeaderLineIdx(file.lines, {"Campaign", "Ad group", "Impr.", "Cost", "Conversions"}) - 1
        /\ \A i \in DOMAIN ld.result.rows : ~StartsWithTotal(ld.result.rows[i])

\* C20: every analysis component is read-only on the dataset it is given: no
\* call changes the columns or the values of the caller's frame
C20_ComponentsReadOnly == [][dataset' = dataset /\ dsCols' = dsCols]_vars

C25_TrueIffRegistered ==
    out.kind = "results" =>
        \A s \in DataSources :
            /\ (out.results[s] = "True") <=> (connectors[s] = out.user)
            /\ store[out.user][s] = "invalid" => out.results[s] = "False"

\* C26: a remove_user_connector call that returns False changes neither the
\* registry of the integrator nor the credential store
C26_FalseChangesNothing ==
    [][(called' = "remove_user_connector" /\ ~out'.ret) =>
            (connectors' = connectors /\ store' = store)]_vars

\* The column of the analyzer's data a metric name stands for
MetricColumn(ds, metric) ==
    CASE metric = "ctr"  -> Ctr4(ds)
      [] metric = "cpc"  -> Cpc4(ds)
      [] metric = "roas" -> PreparedRoas(ds)
      [] OTHER           -> PreparedConversionRate(ds)

\* list holds the first limit rows of S, in the order of the dataset
FirstInArrivalOrder(list, S, limit) ==
    /\ Len(list) = (IF Cardinality(S) < limit THEN Cardinality(S) ELSE limit)
    /\ \A k \in DOMAIN list : list[k] \in S
    /\ \A k \in 1..(Len(list) - 1) : list[k] < list[k + 1]
    /\ \A i \in S : (\A k \in DOMAIN list : list[k] # i) => \A k \in DOMAIN list : list[k] < i

\* The list reported under a metric, empty when there is none
ListOf(performers, metric) ==
    IF metric \in DOMAIN performers THEN performers[metric] ELSE <<>>

\* C27: for each tracked metric in {ctr, cpc, roas, conversion_rate} the
\* top-performer list is the first N rows (N = 10), in dataset order, of the
\* rows at or above the top threshold, and the bottom-performer list the first
\* N rows, in dataset order, of the rows passing the minimum-spend filter that
\* are at or below the bottom threshold
C27_PerformersInArrivalOrder ==
    (called = "analyze_performance" /\ out.kind = "result") =>
        \A metric \in {"ctr", "cpc", "roas", "conversion_rate"} :
            /\ FirstInArrivalOrder(
                  ListOf(out.top_performers, metric),
                  {i \in DOMAIN dataset :
                      10 * MetricColumn(dataset, metric)[i]
                          >= Quantile10(MetricColumn(dataset, metric), DOMAIN dataset, 9)},
                  ListLimit)
            /\ FirstInArrivalOrder(
                  ListOf(out.bottom_performers, metric),
                  {i \in SignificantSpend(dataset, 50) :
                      10 * MetricColumn(dataset, metric)[i]
                          <= Quantile10(MetricColumn(dataset, metric),
                                        SignificantSpend(dataset, 50), 1)},
                  ListLimit)

\* The campaigns of a step, as a set
StepCampaigns(res, action) ==
    UNION {{res.reallocation_steps[k].campaigns[j] : j \in DOMAIN res.reallocation_steps[k].campaigns}
             : k \in {x \in DOMAIN res.reallocation_steps : res.reallocation_steps[x].action = action}}

\* The campaigns of every step are listed by largest absolute change first
LargestChangeFirst(res) ==
    \A k \in DOMAIN res.reallocation_steps :
        \A j \in 1..(Len(res.reallocation_steps[k].campaigns) - 1) :
            Abs(res.plan[res.reallocation_steps[k].campaigns[j]].budget_change_amount.v)
                >= Abs(res.plan[res.reallocation_steps[k].campaigns[j + 1]].budget_change_amount.v)

\* The steps are the decreases, then the increases, each present exactly if its
\* set is not empty and listing the campaigns of its set
StepsInOrder(res) ==
    /\ \A k \in 1..(Len(res.reallocation_steps) - 1) :
          /\ res.reallocation_steps[k].action = "DECREASE_BUDGETS"
          /\ res.reallocation_steps[k + 1].action = "INCREASE_BUDGETS"
    /\ StepCampaigns(res, "DECREASE_BUDGETS") = res.decrease_budget
    /\ StepCampaigns(res, "INCREASE_BUDGETS") = res.increase_budget
    /\ LargestChangeFirst(res)

\* C28: in a budget plan every campaign is in exactly one of increase
\* (delta > 50), decrease (delta < -50) and maintain (|delta| <= 50), and the
\* steps are the decrease step, then the increase step, each listing its
\* campaigns by largest absolute change first
C28_PartitionAndStepOrder ==
    (called = "calculate_budget_reallocation" /\ out.kind = "result") =>
        /\ \A c \in DOMAIN out.plan :
              Cardinality({S \in {"increase", "decrease", "maintain"} :
                              c \in (CASE S = "increase" -> out.increase_budget
                                       [] S = "decrease" -> out.decrease_budget
                                       [] OTHER          -> out.maintain_budget)}) = 1
        /\ StepsInOrder(out)

\* C30: every recommendation that lists affected entities lists at most 5 of
\* them, whichever rule emitted it
C30_AtMostFiveAffected ==
    (called \in {"generate_recommendations", "_generate_recommendations"} /\ out.kind = "result") =>
        \A rule \in DOMAIN out.affected : Cardinality(out.affected[rule]) <= 5

\* The per-day mean of a metric, in ten-thousandths
DailyMean(ds, metric) ==
    [d \in GroupKeys(ds, "date") |->
        MeanOver([i \in DOMAIN ds |-> ds[i][metric] * (IF metric = "ctr" THEN 100 ELSE 10000)],
                 GroupRows(ds, "date", d))]

\* C29: trend analysis of a metric of the dataset returns "insufficient_data"
\* exactly if the dataset has fewer than 2 distinct dates, and otherwise
\* "improving", "declining" or "stable" as the mean of the last 7 daily values
\* of the metric is above 1.1 times, below 0.9 times, or neither, of the mean
\* of the first 7
C29_TrendDirection ==
    (called = "_analyze_trends" /\ out.metric \in dsCols /\ "date" \in dsCols) =>
        /\ out.kind = "result"
        /\ out.trend_direction = TrendDirection(DailyMean(dataset, out.metric))

\* C22: once logout(user_id) has completed, the user's Google OAuth tokens are
\* not stored (get_user_tokens(user_id) has no entry for the user, so that
\* get_user_credentials answers 'User not authenticated'), and only a token
\* exchange of the user stores tokens again
C22_LogoutRemovesTokens ==
    [][/\ called' = "logout" => out'.user \notin DOMAIN get_user_tokens(store', out'.user)
       /\ \A u \in Users :
            (u \notin DOMAIN get_user_tokens(store, u) /\ u \in DOMAIN get_user_tokens(store', u))
               => (called' = "exchange_token" /\ out'.user = u)
       /\ (called' = "get_user_credentials"
             /\ out'.user \notin DOMAIN get_user_tokens(store, out'.user))
               => out'.kind = "HTTPException"]_vars

\* An initialize request answered successfully: HTTP 200 with a session id or
\* a protocol version
InitializeSucceeded(m) ==
    /\ m.kind = "response" /\ m.method = "initialize" /\ m.status = 200
    /\ (m.session # NoSession \/ m.protocolVersion)

\* The handshake is complete at position k of the wire: a successful answer to
\* initialize, then the notification
HandshakeBefore(k) ==
    \E i \in 1..(k - 1) : \E j \in (i + 1)..(k - 1) :
        /\ InitializeSucceeded(wire[i])
        /\ wire[j].method = "notifications/initialized"

\* C23: a tools/call request is sent only after an initialize request was
\* answered successfully and the notifications/initialized notification was
\* sent after it; a call_tool that ends with no handshake completed returns
\* None (and, by the first part, has sent no tools/call request)
C23_ToolsCallAfterHandshake ==
    /\ \A k \in DOMAIN wire : wire[k].method = "tools/call" => HandshakeBefore(k)
    /\ \A t \in Callers :
          (callers[t].pc = "done" /\ ~HandshakeBefore(Len(wire) + 1)) => callers[t].ret = "None"

\* C24: whatever the interleaving of the call_tool invocations, at most one
\* initialize handshake is performed, and every tools/call request carries the
\* session id that the answer to that handshake's initialize returned
C24_OneHandshakeOneSession ==
    /\ Cardinality({j \in DOMAIN wire : wire[j].method = "notifications/initialized"}) <= 1
    /\ \A k \in DOMAIN wire : wire[k].method = "tools/call" =>
          \A j \in 1..(k - 1) : wire[j].method = "notifications/initialized" =>
             \E i \in 1..(j - 1) :
                /\ wire[i].kind = "response" /\ wire[i].task = wire[j].task
                /\ wire[i].session = wire[k].session

=============================================================================
